---- MODULE Spec2Model ----
(***************************************************************************)
(* A model of the Simple toolchain of projects/compiler_2206: the two-pass *)
(* compiler (src/compiler.c) that emits SML words into a 100-cell memory   *)
(* image and the line interpreter (src/interpreter.c).                     *)
(*                                                                         *)
(* A source line is a sequence of tokens as the lexer delivers them; the   *)
(* end of the line is the NEWLINE token.  Identifier and string texts are  *)
(* sequences of ASCII codes, so that text[0], tolower and strncmp are      *)
(* computed as the C code computes them.                                   *)
(***************************************************************************)
EXTENDS Integers, Sequences, FiniteSets, TLC

(***************************************************************************)
(* Program constants (include/compiler.h, include/interpreter.h).          *)
(***************************************************************************)
MEMORY_SIZE == 100
MAX_SYMBOLS == 100
MAX_FLAGS == 100
MAX_FOR_DEPTH == 10
MAX_STRINGS == 50
MAX_STRING_LEN == 64

SML_READ == 10
SML_WRITE == 11
SML_NEWLINE == 12
SML_WRITES == 13
SML_LOAD == 20
SML_STORE == 21
SML_ADD == 30
SML_SUBTRACT == 31
SML_DIVIDE == 32
SML_MULTIPLY == 33
SML_MOD == 34
SML_BRANCH == 40
SML_BRANCHNEG == 41
SML_BRANCHZERO == 42
SML_HALT == 43

(***************************************************************************)
(* Bound of the model: the number of source lines of a program.            *)
(***************************************************************************)
MaxLines == 2

(***************************************************************************)
(* Tokens (include/token.h).                                               *)
(***************************************************************************)
Token(type, text, num_value) ==
    [type |-> type, text |-> text, num_value |-> num_value]

NewlineToken == Token("NEWLINE", <<>>, 0)

\* error_message: the format string and its arguments; "" when never set
Msg(fmt, args) == [fmt |-> fmt, args |-> args]

NoMsg == Msg("", <<>>)

MinOf(S) == CHOOSE x \in S : \A y \in S : x <= y

\* C integer division and remainder (truncation toward zero)
CDiv(a, b) == IF a >= 0 THEN a \div b ELSE -((-a) \div b)

CMod(a, b) == a - b * CDiv(a, b)

\* tolower() on an ASCII code
ToLower(ch) == IF ch >= 65 /\ ch <= 90 THEN ch + 32 ELSE ch

\* a value together with the compiler state a C function leaves behind
Ret(c, v) == [c |-> c, v |-> v]

(***************************************************************************)
(* compiler.c: helpers.                                                    *)
(***************************************************************************)
var_index(ch) ==
    LET lc == ToLower(ch)
    IN  IF lc >= 97 /\ lc <= 122 THEN lc - 97 ELSE -1

set_error(c, fmt, args) ==
    [c EXCEPT !.error_message = Msg(fmt, args), !.has_error = TRUE,
              !.h_first_error = IF c.has_error THEN @ ELSE Msg(fmt, args)]

\* comp->current_token; past the last token of the line the lexer gives NEWLINE
current_token(c) ==
    IF c.pos >= 1 /\ c.pos <= Len(c.toks) THEN c.toks[c.pos] ELSE NewlineToken

advance_token(c) == [c EXCEPT !.pos = @ + 1]

\* lexer_reset_line: the lexer restarts at the first byte of the line
lexer_reset_line(c, line) == [c EXCEPT !.toks = line, !.pos = 0]

\* a write to comp->memory[addr]; an address outside the array is undefined
\* behaviour, recorded in ub
MemStore(c, addr, val) ==
    IF addr >= 0 /\ addr < MEMORY_SIZE
    THEN [c EXCEPT !.memory[addr] = val]
    ELSE [c EXCEPT !.ub = TRUE]

emit_wrong_guard(c, instruction) ==
    IF c.instruction_counter > c.data_counter
    THEN set_error(c, "Memory overflow: code and data collision", <<>>)
    ELSE [MemStore(c, c.instruction_counter, instruction)
            EXCEPT !.instruction_counter = @ + 1,
                   !.h_code = @ \cup {c.instruction_counter}]

emit(c, instruction) ==
    IF c.instruction_counter >= c.data_counter
    THEN set_error(c, "Memory overflow: code and data collision", <<>>)
    ELSE [MemStore(c, c.instruction_counter, instruction)
            EXCEPT !.instruction_counter = @ + 1,
                   !.h_code = @ \cup {c.instruction_counter}]

\* evaluate x once and give F of its value (sequencing of C statements)
Bind(x, F(_)) == CHOOSE r \in {F(t) : t \in {x}} : TRUE

\* consecutive calls of emit
RECURSIVE emit_all(_, _)
emit_all(c, instructions) ==
    IF instructions = <<>> THEN c
    ELSE Bind(emit(c, Head(instructions)), LAMBDA c1 :
         emit_all(c1, Tail(instructions)))

alloc_data_silent(c) ==
    IF c.data_counter <= c.instruction_counter
    THEN Ret(c, -1)
    ELSE Ret([c EXCEPT !.data_counter = @ - 1,
                       !.h_data = @ \cup {c.data_counter}],
             c.data_counter)

alloc_data(c) ==
    IF c.data_counter <= c.instruction_counter
    THEN Ret(set_error(c, "Memory overflow: code and data collision", <<>>), -1)
    ELSE Ret([c EXCEPT !.data_counter = @ - 1,
                       !.h_data = @ \cup {c.data_counter}],
             c.data_counter)

(***************************************************************************)
(* compiler.c: symbol table.  find_symbol gives the index of the first     *)
(* matching entry, 0 for NULL.                                             *)
(***************************************************************************)
find_symbol(c, type, symbol) ==
    LET S == {i \in 1..Len(c.symbols) :
                 c.symbols[i].type = type /\ c.symbols[i].symbol = symbol}
    IN  IF S = {} THEN 0 ELSE MinOf(S)

add_symbol(c, type, symbol, location) ==
    IF Len(c.symbols) >= MAX_SYMBOLS
    THEN set_error(c, "Symbol table overflow", <<>>)
    ELSE [c EXCEPT !.symbols = Append(@,
             [type |-> type, symbol |-> symbol, location |-> location, size |-> 0])]

\* history: one entry per use of an interned variable, constant or string
NoteUse(c, kind, key, loc, fresh) ==
    [c EXCEPT !.h_uses = Append(@,
        [kind |-> kind, key |-> key, loc |-> loc, fresh |-> fresh])]

get_or_create_variable(c, var_idx) ==
    LET sym == find_symbol(c, "VARIABLE", var_idx)
    IN  IF sym # 0
        THEN Ret(NoteUse(c, "VARIABLE", var_idx, c.symbols[sym].location, FALSE),
                 c.symbols[sym].location)
        ELSE LET a == alloc_data(c)
                 c1 == IF a.v >= 0 THEN add_symbol(a.c, "VARIABLE", var_idx, a.v)
                                   ELSE a.c
             IN  Ret(NoteUse(c1, "VARIABLE", var_idx, a.v, TRUE), a.v)

get_or_create_constant_always_new(c, value) ==
    LET a == alloc_data(c)
        c1 == IF a.v >= 0
              THEN MemStore(add_symbol(a.c, "CONSTANT", value, a.v), a.v, value)
              ELSE a.c
    IN  Ret(NoteUse(c1, "CONSTANT", value, a.v, TRUE), a.v)

get_or_create_constant(c, value) ==
    LET sym == find_symbol(c, "CONSTANT", value)
    IN  IF sym # 0
        THEN Ret(NoteUse(c, "CONSTANT", value, c.symbols[sym].location, FALSE),
                 c.symbols[sym].location)
        ELSE LET a == alloc_data(c)
                 c1 == IF a.v >= 0
                       THEN MemStore(add_symbol(a.c, "CONSTANT", value, a.v), a.v, value)
                       ELSE a.c
             IN  Ret(NoteUse(c1, "CONSTANT", value, a.v, TRUE), a.v)

add_flag(c, instruction_loc, target_line) ==
    IF Len(c.flags) >= MAX_FLAGS
    THEN set_error(c, "Too many unresolved references", <<>>)
    ELSE [c EXCEPT !.flags = Append(@,
             [instruction_location |-> instruction_loc,
              target_line_number |-> target_line])]

\* the loop "for (i = 0; i < size; i++) if (alloc_data(comp) < 0) return -1":
\* the instruction counter does not move during the loop, so alloc_data
\* succeeds for the first data_counter - instruction_counter calls; a call
\* after those fails as alloc_data fails, and the loop returns -1
alloc_run(c, n) ==
    LET room == IF c.data_counter > c.instruction_counter
                THEN c.data_counter - c.instruction_counter ELSE 0
        m == IF n <= room THEN n ELSE room
        c1 == [c EXCEPT !.data_counter = @ - m,
                        !.h_data = @ \cup ((c.data_counter - m + 1)..c.data_counter)]
    IN  IF n <= 0 THEN Ret(c, 0)
        ELSE IF m < n THEN Ret(alloc_data(c1).c, -1)
        ELSE Ret(c1, 0)

get_or_create_array(c, var_idx, size) ==
    LET sym == find_symbol(c, "ARRAY", var_idx)
    IN  IF sym # 0 THEN Ret(c, c.symbols[sym].location)
        ELSE LET base_loc == c.data_counter
                 r == alloc_run(c, size)
             IN  IF r.v < 0 THEN Ret(r.c, -1)
                 ELSE LET c1 == add_symbol(r.c, "ARRAY", var_idx, base_loc)
                          c2 == IF Len(c1.symbols) > Len(r.c.symbols)
                                THEN [c1 EXCEPT !.symbols[Len(c1.symbols)].size = size]
                                ELSE c1
                      IN  Ret(c2, base_loc)


(***************************************************************************)
(* compiler.c: string constants.  A text is a sequence of character codes; *)
(* CharAt gives the byte at a C index, 0 (NUL) at and after the end.        *)
(***************************************************************************)
CharAt(text, i) == IF i >= 0 /\ i < Len(text) THEN text[i + 1] ELSE 0

\* strncmp(a, b, n) == 0
RECURSIVE StrNCmpEqFrom(_, _, _, _)
StrNCmpEqFrom(a, b, n, i) ==
    IF i >= n THEN TRUE
    ELSE IF CharAt(a, i) # CharAt(b, i) THEN FALSE
    ELSE IF CharAt(a, i) = 0 THEN TRUE
    ELSE StrNCmpEqFrom(a, b, n, i + 1)

StrNCmpEq(a, b, n) == StrNCmpEqFrom(a, b, n, 0)

\* the loop that writes the characters at descending addresses, from
\* character i on: it runs while i < len and i < MAX_STRING_LEN - 1, each
\* round a write to memory[data_counter--] (outside the array: undefined
\* behaviour, as in MemStore)
store_chars(c, str, len, i) ==
    LET last == IF len < MAX_STRING_LEN - 1 THEN len ELSE MAX_STRING_LEN - 1
        n == IF last > i THEN last - i ELSE 0
        cells == (c.data_counter - n + 1)..c.data_counter
    IN  [c EXCEPT !.memory = [a \in DOMAIN @ |->
                                 IF a \in cells
                                 THEN CharAt(str, i + c.data_counter - a)
                                 ELSE @[a]],
                  !.ub = @ \/ \E a \in cells : a < 0 \/ a >= MEMORY_SIZE,
                  !.data_counter = @ - n,
                  !.h_data = @ \cup cells]

\* the test of the interning loop: same len characters and a NUL after them
StringMatch(entry, str, len) ==
    StrNCmpEq(entry.text, str, len) /\ CharAt(entry.text, len) = 0

store_string(c, text) ==
    LET len0 == Len(text)
        quoted == len0 >= 2 /\ text[1] = 34 /\ text[len0] = 34
        str == IF quoted THEN Tail(text) ELSE text
        len == IF quoted THEN len0 - 2 ELSE len0
        S == {i \in 1..Len(c.strings) : StringMatch(c.strings[i], str, len)}
    IN  IF S # {}
        THEN Ret(NoteUse(c, "STRING", SubSeq(str, 1, len),
                         c.strings[MinOf(S)].location, FALSE),
                 c.strings[MinOf(S)].location)
        ELSE IF Len(c.strings) >= MAX_STRINGS
        THEN Ret(set_error(c, "Too many string constants", <<>>), -1)
        ELSE LET start_loc == c.data_counter
                 c1 == [MemStore(c, c.data_counter, len)
                          EXCEPT !.data_counter = @ - 1,
                                 !.h_data = @ \cup {c.data_counter}]
                 c2 == store_chars(c1, str, len, 0)
                 \* strncpy into text[MAX_STRING_LEN] overruns for len >= 64
                 c3 == [c2 EXCEPT !.strings = Append(@,
                           [text |-> SubSeq(str, 1, len), location |-> start_loc]),
                                  !.ub = @ \/ (len >= MAX_STRING_LEN)]
             IN  Ret(NoteUse(c3, "STRING", SubSeq(str, 1, len), start_loc, TRUE),
                     start_loc)

(***************************************************************************)
(* compiler.c: expressions.  Every function takes the compiler state and   *)
(* gives the state it leaves; the result of the fragment is in the AC.     *)
(***************************************************************************)
\* history: one entry per branch cell, with the statement that emitted it
\* (dest is the target line number of a GOTO or IF, the target address of a
\* branch of FOR/NEXT or exponentiation; fwd: the target line was not yet in
\* the symbol table; word: the word as first emitted)
NoteBranch(c, cell, origin, dest, word, fwd) ==
    [c EXCEPT !.h_branches = Append(@,
        [cell |-> cell, origin |-> origin, dest |-> dest,
         word |-> word, fwd |-> fwd])]

\* the array sized by its first index alone, without the minimum of 10
array_element_exact_size(c, idx, array_idx) ==
    LET size == array_idx + 1
    IN  Bind(IF find_symbol(c, "ARRAY", idx) = 0
             THEN get_or_create_array(c, idx, size).c ELSE c, LAMBDA c1 :
        Bind(find_symbol(c1, "ARRAY", idx), LAMBDA arr :
        IF arr = 0 THEN Ret(set_error(c1, "Failed to create array", <<>>), -1)
        ELSE IF array_idx < 0 \/ array_idx >= c1.symbols[arr].size
        THEN Ret(set_error(c1, "Array index %d out of bounds (0-%d)",
                           <<array_idx, c1.symbols[arr].size - 1>>), -1)
        ELSE Ret(c1, c1.symbols[arr].location - array_idx)))

\* find or create the array and bounds-check the literal index; v is the
\* address of the element, -1 after an error
array_element(c, idx, array_idx) ==
    LET size == IF array_idx + 1 > 10 THEN array_idx + 1 ELSE 10
    IN  Bind(IF find_symbol(c, "ARRAY", idx) = 0
             THEN get_or_create_array(c, idx, size).c ELSE c, LAMBDA c1 :
        Bind(find_symbol(c1, "ARRAY", idx), LAMBDA arr :
        IF arr = 0 THEN Ret(set_error(c1, "Failed to create array", <<>>), -1)
        ELSE IF array_idx < 0 \/ array_idx >= c1.symbols[arr].size
        THEN Ret(set_error(c1, "Array index %d out of bounds (0-%d)",
                           <<array_idx, c1.symbols[arr].size - 1>>), -1)
        ELSE Ret(c1, c1.symbols[arr].location - array_idx)))

RECURSIVE compile_expression(_)
RECURSIVE compile_expression_loop(_)
RECURSIVE compile_term(_)
RECURSIVE compile_term_loop(_)
RECURSIVE compile_power(_)
RECURSIVE compile_unary(_)
RECURSIVE compile_primary(_)

compile_primary(c) ==
    LET token == current_token(c)
    IN  IF token.type = "NUMBER" \/ token.type = "FLOAT"
        THEN Bind(get_or_create_constant(c, token.num_value), LAMBDA g :
             advance_token(emit(g.c, SML_LOAD * 100 + g.v)))
        ELSE IF token.type = "IDENT"
        THEN LET idx == var_index(CharAt(token.text, 0))
                 c1 == advance_token(c)
                 c2 == advance_token(advance_token(c))
                 c3 == advance_token(advance_token(advance_token(c)))
                 array_idx == current_token(c2).num_value
             IN  IF idx < 0 THEN set_error(c, "Invalid variable: %s", <<token.text>>)
                 ELSE IF current_token(c1).type = "LPAREN"
                 THEN IF current_token(c2).type # "NUMBER"
                      THEN set_error(c2,
                               "Array index must be a constant (SML limitation)", <<>>)
                      ELSE IF current_token(c3).type # "RPAREN"
                      THEN set_error(c3, "Expected ')' after array index", <<>>)
                      ELSE Bind(array_element(advance_token(c3), idx, array_idx),
                                LAMBDA e :
                                IF e.v < 0 THEN e.c
                                ELSE emit(e.c, SML_LOAD * 100 + e.v))
                 ELSE Bind(get_or_create_variable(c1, idx), LAMBDA g :
                      emit(g.c, SML_LOAD * 100 + g.v))
        ELSE IF token.type = "LPAREN"
        THEN Bind(compile_expression(advance_token(c)), LAMBDA c1 :
             IF current_token(c1).type # "RPAREN"
             THEN set_error(c1, "Expected ')'", <<>>)
             ELSE advance_token(c1))
        ELSE set_error(c, "Unexpected token in expression: %s", <<token.text>>)

compile_unary(c) ==
    IF current_token(c).type = "MINUS"
    THEN Bind(compile_unary(advance_token(c)), LAMBDA c1 :
         Bind(get_or_create_constant(c1, 0), LAMBDA z :
         Bind(alloc_data(z.c), LAMBDA t :
         emit_all(t.c, <<SML_STORE * 100 + t.v,
                         SML_LOAD * 100 + z.v,
                         SML_SUBTRACT * 100 + t.v>>))))
    ELSE IF current_token(c).type = "PLUS"
    THEN compile_unary(advance_token(c))
    ELSE compile_primary(c)

\* the three branches of the multiply loop are recorded in the history
compile_power(c) ==
    Bind(compile_unary(c), LAMBDA c0 :
    IF ~(~c0.has_error /\ current_token(c0).type = "CARET") THEN c0
    ELSE Bind(alloc_data(advance_token(c0)), LAMBDA b :
         Bind(emit(b.c, SML_STORE * 100 + b.v), LAMBDA c1 :
         Bind(compile_unary(c1), LAMBDA c2 :
         Bind(alloc_data(c2), LAMBDA e :
         Bind(emit(e.c, SML_STORE * 100 + e.v), LAMBDA c3 :
         Bind(alloc_data(c3), LAMBDA r :
         Bind(get_or_create_constant(r.c, 1), LAMBDA one :
         Bind(emit_all(one.c, <<SML_LOAD * 100 + one.v,
                                SML_STORE * 100 + r.v>>), LAMBDA c4 :
         Bind(emit(c4, SML_LOAD * 100 + e.v), LAMBDA c5 :
         Bind(emit_all(c5, <<SML_BRANCHZERO * 100 + 0,
                             SML_BRANCHNEG * 100 + 0,
                             SML_LOAD * 100 + r.v,
                             SML_MULTIPLY * 100 + b.v,
                             SML_STORE * 100 + r.v,
                             SML_LOAD * 100 + e.v,
                             SML_SUBTRACT * 100 + one.v,
                             SML_STORE * 100 + e.v>>), LAMBDA c8 :
         Bind(emit(c8, SML_BRANCH * 100 + c4.instruction_counter), LAMBDA c9 :
         LET loop_start == c4.instruction_counter
             branch_loc == c5.instruction_counter
             back_loc == c8.instruction_counter
             loop_end == c9.instruction_counter
         IN  Bind(MemStore(c9, branch_loc, SML_BRANCHZERO * 100 + loop_end),
                  LAMBDA c10 :
             Bind(MemStore(c10, branch_loc + 1, SML_BRANCHNEG * 100 + loop_end),
                  LAMBDA c11 :
             Bind(NoteBranch(NoteBranch(NoteBranch(
                      [c11 EXCEPT !.h_code = @ \cup {branch_loc, branch_loc + 1}],
                      branch_loc, "power", loop_end,
                      SML_BRANCHZERO * 100 + 0, FALSE),
                      branch_loc + 1, "power", loop_end,
                      SML_BRANCHNEG * 100 + 0, FALSE),
                      back_loc, "power", loop_start,
                      SML_BRANCH * 100 + loop_start, FALSE), LAMBDA c13 :
             emit(c13, SML_LOAD * 100 + r.v))))))))))))))))

compile_term_loop(c) ==
    IF ~(~c.has_error /\ current_token(c).type \in {"STAR", "SLASH", "PERCENT"}) THEN c
    ELSE LET op == current_token(c).type
             opcode == IF op = "STAR" THEN SML_MULTIPLY
                       ELSE IF op = "SLASH" THEN SML_DIVIDE ELSE SML_MOD
         IN  Bind(alloc_data(advance_token(c)), LAMBDA t :
             Bind(emit(t.c, SML_STORE * 100 + t.v), LAMBDA c1 :
             Bind(compile_power(c1), LAMBDA c2 :
             Bind(alloc_data(c2), LAMBDA t2 :
             Bind(emit_all(t2.c, <<SML_STORE * 100 + t2.v,
                                   SML_LOAD * 100 + t.v,
                                   opcode * 100 + t2.v>>), LAMBDA c4 :
             compile_term_loop(c4))))))

compile_term(c) ==
    Bind(compile_power(c), LAMBDA c1 : compile_term_loop(c1))

compile_expression_loop(c) ==
    IF ~(~c.has_error /\ current_token(c).type \in {"PLUS", "MINUS"}) THEN c
    ELSE LET op == current_token(c).type
             opcode == IF op = "PLUS" THEN SML_ADD ELSE SML_SUBTRACT
         IN  Bind(alloc_data(advance_token(c)), LAMBDA t :
             Bind(emit(t.c, SML_STORE * 100 + t.v), LAMBDA c1 :
             Bind(compile_term(c1), LAMBDA c2 :
             Bind(alloc_data(c2), LAMBDA t2 :
             Bind(emit_all(t2.c, <<SML_STORE * 100 + t2.v,
                                   SML_LOAD * 100 + t.v,
                                   opcode * 100 + t2.v>>), LAMBDA c4 :
             compile_expression_loop(c4))))))

compile_expression(c) ==
    Bind(compile_term(c), LAMBDA c1 : compile_expression_loop(c1))

(***************************************************************************)
(* compiler.c: statements.                                                 *)
(***************************************************************************)
compile_rem(c) == c

\* the do-while of compile_input
RECURSIVE compile_input_loop(_)
compile_input_loop(c) ==
    LET c1 == IF current_token(c).type = "COMMA" THEN advance_token(c) ELSE c
        idx == var_index(CharAt(current_token(c1).text, 0))
    IN  IF current_token(c1).type # "IDENT"
        THEN set_error(c1, "Expected variable after 'input'", <<>>)
        ELSE IF idx < 0
        THEN set_error(c1, "Invalid variable: %s", <<current_token(c1).text>>)
        ELSE Bind(get_or_create_variable(c1, idx), LAMBDA g :
             Bind(advance_token(emit(g.c, SML_READ * 100 + g.v)), LAMBDA c2 :
             IF current_token(c2).type = "COMMA" THEN compile_input_loop(c2)
             ELSE c2))

compile_input(c) == compile_input_loop(advance_token(c))

\* the do-while of compile_print; v is TRUE when the function has returned
RECURSIVE compile_print_loop(_)
compile_print_loop(c) ==
    LET c1 == IF current_token(c).type = "COMMA" THEN advance_token(c) ELSE c
        ty == current_token(c1).type
    IN  IF ty = "STRING"
        THEN Bind(store_string(c1, current_token(c1).text), LAMBDA s :
             Bind(advance_token(IF s.v >= 0
                                THEN emit(s.c, SML_WRITES * 100 + s.v)
                                ELSE s.c), LAMBDA c3 :
             IF current_token(c3).type = "COMMA"
             THEN compile_print_loop(c3) ELSE Ret(c3, FALSE)))
        ELSE IF ty # "NEWLINE" /\ ty # "EOF" /\ ty # "COMMA"
        THEN Bind(compile_expression(c1), LAMBDA c2 :
             IF c2.has_error THEN Ret(c2, TRUE)
             ELSE Bind(alloc_data(c2), LAMBDA t :
                  Bind(emit_all(t.c, <<SML_STORE * 100 + t.v,
                                       SML_WRITE * 100 + t.v>>), LAMBDA c3 :
                  IF current_token(c3).type = "COMMA"
                  THEN compile_print_loop(c3) ELSE Ret(c3, FALSE))))
        ELSE IF current_token(c1).type = "COMMA"
        THEN compile_print_loop(c1) ELSE Ret(c1, FALSE)

compile_print(c) ==
    LET c1 == advance_token(c)
    IN  IF current_token(c1).type = "NEWLINE" \/ current_token(c1).type = "EOF"
        THEN emit(c1, SML_NEWLINE * 100 + 0)
        ELSE Bind(compile_print_loop(c1), LAMBDA r :
             IF r.v THEN r.c
             ELSE emit(r.c, SML_NEWLINE * 100 + 0))

compile_let(c) ==
    LET c1 == advance_token(c)
        idx == var_index(CharAt(current_token(c1).text, 0))
        c2 == advance_token(advance_token(c))
        isArr == current_token(c2).type = "LPAREN"
        c3 == advance_token(advance_token(advance_token(c)))
        array_idx == current_token(c3).num_value
        c4 == advance_token(advance_token(advance_token(advance_token(c))))
    IN  IF current_token(c1).type # "IDENT"
        THEN set_error(c1, "Expected variable after 'let'", <<>>)
        ELSE IF idx < 0
        THEN set_error(c1, "Invalid variable: %s", <<current_token(c1).text>>)
        ELSE IF isArr /\ current_token(c3).type # "NUMBER"
        THEN set_error(c3, "Array index must be a constant (SML limitation)", <<>>)
        ELSE IF isArr /\ current_token(c4).type # "RPAREN"
        THEN set_error(c4, "Expected ')' after array index", <<>>)
        ELSE Bind(IF isArr THEN array_element(advance_token(c4), idx, array_idx)
                  ELSE get_or_create_variable(c2, idx), LAMBDA tgt :
             IF isArr /\ tgt.v < 0 THEN tgt.c
             ELSE IF current_token(tgt.c).type # "ASSIGN"
             THEN set_error(tgt.c, "Expected '=' in let statement", <<>>)
             ELSE Bind(compile_expression(advance_token(tgt.c)), LAMBDA c5 :
                  IF c5.has_error THEN c5
                  ELSE emit(c5, SML_STORE * 100 + tgt.v)))

\* a branch to a line: the location of the line when it is already in the
\* symbol table, else operand 0 and a flag for the cell
BranchTo_off_by_one(c, opcode, target_line, origin) ==
    LET sym == find_symbol(c, "LINE", target_line)
        target_loc == IF sym # 0 THEN c.symbols[sym].location + 1 ELSE 0
        c1 == IF sym = 0 THEN add_flag(c, c.instruction_counter, target_line) ELSE c
    IN  emit(NoteBranch(c1, c.instruction_counter, origin, target_line,
                        opcode * 100 + target_loc, sym = 0),
             opcode * 100 + target_loc)

BranchTo(c, opcode, target_line, origin) ==
    LET sym == find_symbol(c, "LINE", target_line)
        target_loc == IF sym # 0 THEN c.symbols[sym].location ELSE 0
        c1 == IF sym = 0 THEN add_flag(c, c.instruction_counter, target_line) ELSE c
    IN  emit(NoteBranch(c1, c.instruction_counter, origin, target_line,
                        opcode * 100 + target_loc, sym = 0),
             opcode * 100 + target_loc)

compile_goto(c) ==
    LET c1 == advance_token(c)
        target_line == current_token(c1).num_value
    IN  IF current_token(c1).type # "NUMBER"
        THEN set_error(c1, "Expected line number after 'goto'", <<>>)
        ELSE advance_token(BranchTo(c1, SML_BRANCH, target_line, "goto"))

\* "<=" records both flags before it emits the two branches
BranchLE_one_flag(c, target_line) ==
    LET sym == find_symbol(c, "LINE", target_line)
        target_loc == IF sym # 0 THEN c.symbols[sym].location ELSE 0
    IN  Bind(IF sym = 0
             THEN add_flag(c, c.instruction_counter, target_line)
             ELSE c, LAMBDA c1 :
        Bind(emit(NoteBranch(c1, c1.instruction_counter, "if", target_line,
                             SML_BRANCHNEG * 100 + target_loc, sym = 0),
                  SML_BRANCHNEG * 100 + target_loc), LAMBDA c2 :
        emit(NoteBranch(c2, c2.instruction_counter, "if", target_line,
                        SML_BRANCHZERO * 100 + target_loc, sym = 0),
             SML_BRANCHZERO * 100 + target_loc)))

BranchLE(c, target_line) ==
    LET sym == find_symbol(c, "LINE", target_line)
        target_loc == IF sym # 0 THEN c.symbols[sym].location ELSE 0
    IN  Bind(IF sym = 0
             THEN add_flag(add_flag(c, c.instruction_counter, target_line),
                           c.instruction_counter + 1, target_line)
             ELSE c, LAMBDA c1 :
        Bind(emit(NoteBranch(c1, c1.instruction_counter, "if", target_line,
                             SML_BRANCHNEG * 100 + target_loc, sym = 0),
                  SML_BRANCHNEG * 100 + target_loc), LAMBDA c2 :
        emit(NoteBranch(c2, c2.instruction_counter, "if", target_line,
                        SML_BRANCHZERO * 100 + target_loc, sym = 0),
             SML_BRANCHZERO * 100 + target_loc)))

IfBranches_le_as_lt(c, op, target_line, temp_left, temp_right) ==
    LET swap == <<SML_LOAD * 100 + temp_right, SML_SUBTRACT * 100 + temp_left>>
    IN  CASE op = "EQ" -> BranchTo(c, SML_BRANCHZERO, target_line, "if")
          [] op = "LT" -> BranchTo(c, SML_BRANCHNEG, target_line, "if")
          [] op = "GT" ->
               Bind(emit_all(c, swap), LAMBDA c1 :
               BranchTo(c1, SML_BRANCHNEG, target_line, "if"))
          [] op = "LE" -> BranchTo(c, SML_BRANCHNEG, target_line, "if")
          [] op = "GE" ->
               Bind(BranchTo(c, SML_BRANCHZERO, target_line, "if"), LAMBDA c1 :
               Bind(emit_all(c1, swap), LAMBDA c2 :
               BranchTo(c2, SML_BRANCHNEG, target_line, "if")))
          [] op = "NE" ->
               Bind(BranchTo(c, SML_BRANCHNEG, target_line, "if"), LAMBDA c1 :
               Bind(emit_all(c1, swap), LAMBDA c2 :
               BranchTo(c2, SML_BRANCHNEG, target_line, "if")))
          [] OTHER -> c

\* the branch or branches of one relational operator; left and right are
\* the temporaries of the two operands, and AC holds left - right
IfBranches(c, op, target_line, temp_left, temp_right) ==
    LET swap == <<SML_LOAD * 100 + temp_right, SML_SUBTRACT * 100 + temp_left>>
    IN  CASE op = "EQ" -> BranchTo(c, SML_BRANCHZERO, target_line, "if")
          [] op = "LT" -> BranchTo(c, SML_BRANCHNEG, target_line, "if")
          [] op = "GT" ->
               Bind(emit_all(c, swap), LAMBDA c1 :
               BranchTo(c1, SML_BRANCHNEG, target_line, "if"))
          [] op = "LE" -> BranchLE(c, target_line)
          [] op = "GE" ->
               Bind(BranchTo(c, SML_BRANCHZERO, target_line, "if"), LAMBDA c1 :
               Bind(emit_all(c1, swap), LAMBDA c2 :
               BranchTo(c2, SML_BRANCHNEG, target_line, "if")))
          [] op = "NE" ->
               Bind(BranchTo(c, SML_BRANCHNEG, target_line, "if"), LAMBDA c1 :
               Bind(emit_all(c1, swap), LAMBDA c2 :
               BranchTo(c2, SML_BRANCHNEG, target_line, "if")))
          [] OTHER -> c

compile_if(c) ==
    Bind(compile_expression(advance_token(c)), LAMBDA c1 :
    IF c1.has_error THEN c1
    ELSE Bind(alloc_data(c1), LAMBDA tl :
         Bind(emit(tl.c, SML_STORE * 100 + tl.v), LAMBDA c2 :
         IF current_token(c2).type \notin {"EQ", "NE", "LT", "GT", "LE", "GE"}
         THEN set_error(c2, "Expected comparison operator in if statement", <<>>)
         ELSE Bind(compile_expression(advance_token(c2)), LAMBDA c3 :
              IF c3.has_error THEN c3
              ELSE Bind(alloc_data(c3), LAMBDA tr :
                   Bind(emit_all(tr.c, <<SML_STORE * 100 + tr.v,
                                         SML_LOAD * 100 + tl.v,
                                         SML_SUBTRACT * 100 + tr.v>>), LAMBDA c4 :
                   LET c5 == advance_token(c4)
                       target_line == current_token(c5).num_value
                   IN  IF current_token(c4).type # "GOTO"
                       THEN set_error(c4, "Expected 'goto' in if statement", <<>>)
                       ELSE IF current_token(c5).type # "NUMBER"
                       THEN set_error(c5, "Expected line number after 'goto'", <<>>)
                       ELSE advance_token(IfBranches(c5, current_token(c2).type,
                                                     target_line, tl.v, tr.v))))))))

\* the frame compile_for pushes
ForFrame_off_by_one(c, loop_var, var_loc, end_loc, step_loc, step_is_negative) ==
    IF Len(c.for_stack) > MAX_FOR_DEPTH
    THEN set_error(c, "For loop nested too deep", <<>>)
    ELSE [c EXCEPT !.for_stack = Append(@,
             [var |-> loop_var, var_location |-> var_loc,
              end_location |-> end_loc, step_location |-> step_loc,
              step_is_negative |-> step_is_negative,
              loop_start |-> c.instruction_counter]),
                   !.h_pushed = @ + 1]

ForFrame(c, loop_var, var_loc, end_loc, step_loc, step_is_negative) ==
    IF Len(c.for_stack) >= MAX_FOR_DEPTH
    THEN set_error(c, "For loop nested too deep", <<>>)
    ELSE [c EXCEPT !.for_stack = Append(@,
             [var |-> loop_var, var_location |-> var_loc,
              end_location |-> end_loc, step_location |-> step_loc,
              step_is_negative |-> step_is_negative,
              loop_start |-> c.instruction_counter]),
                   !.h_pushed = @ + 1]

compile_for(c) ==
    LET c1 == advance_token(c)
        loop_var == CharAt(current_token(c1).text, 0)
        idx == var_index(loop_var)
    IN  IF current_token(c1).type # "IDENT"
        THEN set_error(c1, "Expected variable after 'for'", <<>>)
        ELSE IF idx < 0 THEN set_error(c1, "Invalid loop variable", <<>>)
        ELSE Bind(get_or_create_variable(c1, idx), LAMBDA g :
             Bind(advance_token(g.c), LAMBDA c2 :
             IF current_token(c2).type # "ASSIGN"
             THEN set_error(c2, "Expected '=' in for statement", <<>>)
             ELSE Bind(compile_expression(advance_token(c2)), LAMBDA c3 :
                  IF c3.has_error THEN c3
                  ELSE Bind(emit(c3, SML_STORE * 100 + g.v), LAMBDA c4 :
                  IF current_token(c4).type # "TO"
                  THEN set_error(c4, "Expected 'to' in for statement", <<>>)
                  ELSE Bind(compile_expression(advance_token(c4)), LAMBDA c5 :
                       IF c5.has_error THEN c5
                       ELSE Bind(alloc_data(c5), LAMBDA e :
                            Bind(emit(e.c, SML_STORE * 100 + e.v), LAMBDA c6 :
                            IF current_token(c6).type = "STEP"
                            THEN LET c7 == advance_token(c6)
                                     minus == current_token(c7).type = "MINUS"
                                     c8 == IF minus THEN advance_token(c7) ELSE c7
                                     step_val ==
                                         IF minus THEN -(current_token(c8).num_value)
                                         ELSE current_token(c8).num_value
                                 IN  IF current_token(c8).type # "NUMBER"
                                     THEN set_error(c8,
                                              "Step must be a constant number", <<>>)
                                     ELSE Bind(get_or_create_constant(c8, step_val),
                                               LAMBDA s :
                                          ForFrame(advance_token(s.c), loop_var,
                                                   g.v, e.v, s.v,
                                                   minus \/ step_val < 0))
                            ELSE Bind(get_or_create_constant(c6, 1), LAMBDA s :
                                 ForFrame(s.c, loop_var, g.v, e.v, s.v,
                                          FALSE)))))))))

\* NEXT with the end value itself left out of the loop
compile_next_without_zero(c) ==
    LET c1 == advance_token(c)
        loop_var == CharAt(current_token(c1).text, 0)
        c2 == advance_token(advance_token(c))
    IN  IF current_token(c1).type # "IDENT"
        THEN set_error(c1, "Expected variable after 'next'", <<>>)
        ELSE IF Len(c2.for_stack) = 0
        THEN set_error(c2, "next without for", <<>>)
        ELSE LET state == c2.for_stack[Len(c2.for_stack)]
             IN  IF state.var # loop_var
                 THEN set_error(c2,
                          "next variable mismatch: expected '%c', got '%c'",
                          <<state.var, loop_var>>)
                 ELSE Bind(emit_all(c2,
                               <<SML_LOAD * 100 + state.var_location,
                                 SML_ADD * 100 + state.step_location,
                                 SML_STORE * 100 + state.var_location>>
                               \o (IF state.step_is_negative
                                   THEN <<SML_LOAD * 100 + state.end_location,
                                          SML_SUBTRACT * 100 + state.var_location>>
                                   ELSE <<SML_LOAD * 100 + state.var_location,
                                          SML_SUBTRACT * 100 + state.end_location>>)),
                           LAMBDA c4 :
                      Bind(emit(NoteBranch(c4, c4.instruction_counter, "next",
                                    state.loop_start,
                                    SML_BRANCHNEG * 100 + state.loop_start, FALSE),
                                SML_BRANCHNEG * 100 + state.loop_start), LAMBDA c5 :
                      Bind(emit(NoteBranch(c5, c5.instruction_counter, "next",
                                    state.loop_start,
                                    SML_BRANCHNEG * 100 + state.loop_start, FALSE),
                                SML_BRANCHNEG * 100 + state.loop_start), LAMBDA c6 :
                      [c6 EXCEPT !.for_stack = SubSeq(@, 1, Len(@) - 1)])))

compile_next(c) ==
    LET c1 == advance_token(c)
        loop_var == CharAt(current_token(c1).text, 0)
        c2 == advance_token(advance_token(c))
    IN  IF current_token(c1).type # "IDENT"
        THEN set_error(c1, "Expected variable after 'next'", <<>>)
        ELSE IF Len(c2.for_stack) = 0
        THEN set_error(c2, "next without for", <<>>)
        ELSE LET state == c2.for_stack[Len(c2.for_stack)]
             IN  IF state.var # loop_var
                 THEN set_error(c2,
                          "next variable mismatch: expected '%c', got '%c'",
                          <<state.var, loop_var>>)
                 ELSE Bind(emit_all(c2,
                               <<SML_LOAD * 100 + state.var_location,
                                 SML_ADD * 100 + state.step_location,
                                 SML_STORE * 100 + state.var_location>>
                               \o (IF state.step_is_negative
                                   THEN <<SML_LOAD * 100 + state.end_location,
                                          SML_SUBTRACT * 100 + state.var_location>>
                                   ELSE <<SML_LOAD * 100 + state.var_location,
                                          SML_SUBTRACT * 100 + state.end_location>>)),
                           LAMBDA c4 :
                      Bind(emit(NoteBranch(c4, c4.instruction_counter, "next",
                                    state.loop_start,
                                    SML_BRANCHNEG * 100 + state.loop_start, FALSE),
                                SML_BRANCHNEG * 100 + state.loop_start), LAMBDA c5 :
                      Bind(emit(NoteBranch(c5, c5.instruction_counter, "next",
                                    state.loop_start,
                                    SML_BRANCHZERO * 100 + state.loop_start, FALSE),
                                SML_BRANCHZERO * 100 + state.loop_start), LAMBDA c6 :
                      [c6 EXCEPT !.for_stack = SubSeq(@, 1, Len(@) - 1)])))

compile_end(c) == emit(c, SML_HALT * 100 + 0)

compile_line(c, line) ==
    LET c1 == advance_token(lexer_reset_line(c, line))
        n == current_token(c1).num_value
    IN  IF current_token(c1).type # "NUMBER" THEN c1
        ELSE Bind(advance_token(
                      add_symbol([c1 EXCEPT !.current_line_number = n,
                                            !.h_lines = Append(@,
                                                [number |-> n,
                                                 addr |-> c1.instruction_counter])],
                                 "LINE", n, c1.instruction_counter)), LAMBDA c3 :
             LET ty == current_token(c3).type
             IN  CASE ty = "REM" -> compile_rem(c3)
                   [] ty = "INPUT" -> compile_input(c3)
                   [] ty = "PRINT" -> compile_print(c3)
                   [] ty = "LET" -> compile_let(c3)
                   [] ty = "GOTO" -> compile_goto(c3)
                   [] ty = "IF" -> compile_if(c3)
                   [] ty = "FOR" -> compile_for(c3)
                   [] ty = "NEXT" -> compile_next(c3)
                   [] ty = "END" -> compile_end(c3)
                   [] ty = "NEWLINE" \/ ty = "EOF" -> c3
                   [] OTHER -> set_error(c3, "Line %d: Unknown statement: %s",
                                         <<n, current_token(c3).text>>))

(***************************************************************************)
(* compiler.c: pass two.                                                   *)
(***************************************************************************)
RECURSIVE resolve_flags_from(_, _)
resolve_flags_from_ignore_undefined(c, i) ==
    IF i > Len(c.flags) THEN c
    ELSE LET inst_loc == c.flags[i].instruction_location
             target_line == c.flags[i].target_line_number
             sym == find_symbol(c, "LINE", target_line)
             opcode == CDiv(c.memory[inst_loc], 100)
         IN  IF sym = 0
             THEN resolve_flags_from(c, i + 1)
             ELSE Bind(MemStore(c, inst_loc,
                                opcode * 100 + c.symbols[sym].location),
                       LAMBDA c1 : resolve_flags_from(c1, i + 1))

resolve_flags_from(c, i) ==
    IF i > Len(c.flags) THEN c
    ELSE LET inst_loc == c.flags[i].instruction_location
             target_line == c.flags[i].target_line_number
             sym == find_symbol(c, "LINE", target_line)
             opcode == CDiv(c.memory[inst_loc], 100)
         IN  IF sym = 0
             THEN set_error(c, "Undefined line number: %d", <<target_line>>)
             ELSE Bind(MemStore(c, inst_loc,
                                opcode * 100 + c.symbols[sym].location),
                       LAMBDA c1 : resolve_flags_from(c1, i + 1))

resolve_flags_skip_first(c) == resolve_flags_from(c, 2)

resolve_flags(c) == resolve_flags_from(c, 1)

compiler_init ==
    [toks |-> <<>>, pos |-> 0,
     symbols |-> <<>>, flags |-> <<>>, for_stack |-> <<>>, strings |-> <<>>,
     memory |-> [a \in 0..(MEMORY_SIZE - 1) |-> 0],
     instruction_counter |-> 0, data_counter |-> MEMORY_SIZE - 1,
     current_line_number |-> 0,
     error_message |-> NoMsg, has_error |-> FALSE,
     ub |-> FALSE,
     h_code |-> {}, h_data |-> {}, h_uses |-> <<>>, h_branches |-> <<>>,
     h_lines |-> <<>>, h_pushed |-> 0, h_first_error |-> NoMsg]


(***************************************************************************)
(* The source lines of the model.  Characters: a 97, i 105, x 120, I 73,   *)
(* X 88, b 98, c 99, the double quote 34.                                  *)
(***************************************************************************)
Num(n) == Token("NUMBER", <<>>, n)

Id(ch) == Token("IDENT", <<ch>>, 0)

Kw(t) == Token(t, <<>>, 0)

Str(chars) == Token("STRING", <<34>> \o chars \o <<34>>, 0)

RelOps == {"EQ", "NE", "LT", "GT", "LE", "GE"}

GotoBodies == {<<Kw("GOTO"), Num(t)>> : t \in {1, 2, 3}}

IfBodies ==
    {<<Kw("IF"), Id(120), Kw(op), Num(1), Kw("GOTO"), Num(2)>> : op \in RelOps}
    \cup {<<Kw("IF"), Id(120), Kw("LE"), Num(1), Kw("GOTO"), Num(3)>>}

LetBodies ==
    { <<Kw("LET"), Id(120), Kw("ASSIGN"), Num(1)>>,
      <<Kw("LET"), Id(88), Kw("ASSIGN"), Id(120), Kw("PLUS"), Num(1)>>,
      <<Kw("LET"), Id(120), Kw("ASSIGN"), Kw("MINUS"), Id(120), Kw("STAR"), Num(2)>>,
      <<Kw("LET"), Id(120), Kw("ASSIGN"), Id(120), Kw("CARET"), Num(2)>>,
      <<Kw("LET"), Id(97), Kw("LPAREN"), Num(95), Kw("RPAREN"), Kw("ASSIGN"), Num(1)>>,
      <<Kw("LET"), Id(97), Kw("LPAREN"), Num(94), Kw("RPAREN"), Kw("ASSIGN"), Num(1)>>,
      <<Kw("LET"), Id(120), Kw("ASSIGN"), Id(97), Kw("LPAREN"), Num(3), Kw("RPAREN")>>,
      <<Kw("LET"), Id(120), Kw("ASSIGN"), Kw("LPAREN"), Num(1)>> }

PrintBodies ==
    { <<Kw("PRINT")>>,
      <<Kw("PRINT"), Id(120)>>,
      <<Kw("PRINT"), Str(<<97, 98, 99>>)>>,
      <<Kw("PRINT"), Str(<<97, 98>>)>>,
      <<Kw("PRINT"), Str(<<97, 98>>), Kw("COMMA"), Id(88), Kw("COMMA"), Num(1),
        Kw("COMMA"), Str(<<97, 98>>)>> }

LoopBodies ==
    { <<Kw("FOR"), Id(105), Kw("ASSIGN"), Num(1), Kw("TO"), Num(2)>>,
      <<Kw("FOR"), Id(105), Kw("ASSIGN"), Num(2), Kw("TO"), Num(1),
        Kw("STEP"), Kw("MINUS"), Num(1)>>,
      <<Kw("NEXT"), Id(105)>>,
      <<Kw("NEXT"), Id(73)>> }

OtherBodies ==
    { <<Kw("REM")>>, <<Kw("END")>>, <<Kw("INPUT"), Id(97)>>,
      <<Id(120), Kw("ASSIGN"), Num(1)>> }

Bodies == GotoBodies \cup IfBodies \cup LetBodies \cup PrintBodies
          \cup LoopBodies \cup OtherBodies

LineNumbers == {1, 2}

\* a numbered line, and one line that does not begin with a number
SourceLines == {<<Num(n)>> \o b : n \in LineNumbers, b \in Bodies}
               \cup {<<Kw("REM")>>}

\* the programs: every sequence of at most MaxLines source lines
Programs == UNION {[1..k -> SourceLines] : k \in 0..MaxLines}

(***************************************************************************)
(* interpreter.c: the tree-walking interpreter.  The Interpreter structure *)
(* is a record; values are the doubles of the program restricted to the    *)
(* integers, and "inexact" records that a division or a power left them.   *)
(* The arrays are kept as the map of the cells written so far (every other *)
(* cell holds the 0 of interpreter_init); stdin and stdout are the streams *)
(* of the process.                                                         *)
(***************************************************************************)
MAX_VARIABLES == 26

MAX_ARRAY_SIZE == 100

MAX_LINES == 1000

i_set_error(it, fmt, args) ==
    [it EXCEPT !.error_message = Msg(fmt, args),
               !.has_error = TRUE,
               !.running = FALSE,
               !.h_first_error = IF it.has_error THEN @ ELSE Msg(fmt, args)]

\* token_type_name gives the names the model uses for the token types
token_type_name(type) == type

expect(it, type) ==
    IF current_token(it).type # type
    THEN Ret(i_set_error(it, "Line %d: Expected %s, got %s",
                 <<it.lines[it.current_line_index + 1].line_number,
                   token_type_name(type),
                   token_type_name(current_token(it).type)>>), 0)
    ELSE Ret(it, 1)

\* index (from 0) of the first line with the number, -1 when there is none
find_line_index(it, line_number) ==
    LET S == {i \in 0..(Len(it.lines) - 1) :
                 it.lines[i + 1].line_number = line_number}
    IN  IF S = {} THEN -1 ELSE MinOf(S)

Abs(a) == IF a < 0 THEN -a ELSE a

\* the integer part of a / b, and fmod(a, b), for b # 0
TruncDiv(a, b) ==
    IF (a < 0) # (b < 0) THEN -(Abs(a) \div Abs(b)) ELSE Abs(a) \div Abs(b)

FMod(a, b) == a - b * TruncDiv(a, b)

RECURSIVE IPow(_, _)
IPow(a, b) == IF b <= 0 THEN 1 ELSE a * IPow(a, b - 1)

\* pow(a, b): an integer for b >= 0 and for a = 1 or -1
Pow(it, a, b) ==
    IF b >= 0 THEN Ret(it, IPow(a, b))
    ELSE IF a = 1 THEN Ret(it, 1)
    ELSE IF a = -1 THEN Ret(it, IF b % 2 = 0 THEN 1 ELSE -1)
    ELSE Ret([it EXCEPT !.inexact = TRUE], 0)

ArrayGet(it, idx, k) ==
    IF <<idx, k>> \in DOMAIN it.arrays THEN it.arrays[<<idx, k>>] ELSE 0

ArraySet(it, idx, k, value) ==
    [it EXCEPT !.arrays = [p \in (DOMAIN it.arrays) \cup {<<idx, k>>} |->
                              IF p = <<idx, k>> THEN value ELSE it.arrays[p]],
               !.array_initialized = @ \cup {idx}]

VarSet(it, idx, value) ==
    [it EXCEPT !.variables[idx] = [value |-> value, initialized |-> TRUE]]

RECURSIVE parse_expression(_)
RECURSIVE parse_expression_loop(_, _)
RECURSIVE parse_term(_)
RECURSIVE parse_term_loop(_, _)
RECURSIVE parse_power(_)
RECURSIVE parse_unary(_)
RECURSIVE parse_primary(_)

parse_primary(it) ==
    LET token == current_token(it)
        idx == var_index(CharAt(token.text, 0))
    IN  IF token.type = "NUMBER" \/ token.type = "FLOAT"
        THEN Ret(advance_token(it), token.num_value)
        ELSE IF token.type = "IDENT"
        THEN IF idx < 0
             THEN Ret(i_set_error(it, "Invalid variable: %s", <<token.text>>), 0)
             ELSE IF current_token(advance_token(it)).type = "LPAREN"
             THEN Bind(parse_expression(advance_token(advance_token(it))),
                       LAMBDA a :
                  Bind(expect(a.c, "RPAREN"), LAMBDA x :
                  IF x.v = 0 THEN Ret(x.c, 0)
                  ELSE IF a.v < 0 \/ a.v >= MAX_ARRAY_SIZE
                  THEN Ret(i_set_error(advance_token(x.c),
                               "Array index out of bounds: %d", <<a.v>>), 0)
                  ELSE Ret(advance_token(x.c), ArrayGet(x.c, idx, a.v))))
             ELSE IF ~it.variables[idx].initialized
             THEN Ret(i_set_error(advance_token(it),
                          "Uninitialized variable: %c", <<97 + idx>>), 0)
             ELSE Ret(advance_token(it), it.variables[idx].value)
        ELSE IF token.type = "LPAREN"
        THEN Bind(parse_expression(advance_token(it)), LAMBDA r :
             Bind(expect(r.c, "RPAREN"), LAMBDA x :
             IF x.v = 0 THEN Ret(x.c, 0)
             ELSE Ret(advance_token(x.c), r.v)))
        ELSE Ret(i_set_error(it, "Unexpected token in expression: %s",
                     <<token.text>>), 0)

parse_unary(it) ==
    IF current_token(it).type = "MINUS"
    THEN Bind(parse_unary(advance_token(it)), LAMBDA r : Ret(r.c, -(r.v)))
    ELSE IF current_token(it).type = "PLUS"
    THEN parse_unary(advance_token(it))
    ELSE parse_primary(it)

parse_power(it) ==
    Bind(parse_unary(it), LAMBDA u :
    IF ~u.c.has_error /\ current_token(u.c).type = "CARET"
    THEN Bind(parse_power(advance_token(u.c)), LAMBDA p : Pow(p.c, u.v, p.v))
    ELSE u)

parse_term_loop_zero_quotient(it, result) ==
    IF ~(~it.has_error
         /\ current_token(it).type \in {"STAR", "SLASH", "PERCENT"})
    THEN Ret(it, result)
    ELSE LET op == current_token(it).type
         IN  Bind(parse_power(advance_token(it)), LAMBDA r :
             IF op = "STAR" THEN parse_term_loop(r.c, result * r.v)
             ELSE IF op = "SLASH"
             THEN IF r.v = 0
                  THEN parse_term_loop(r.c, 0)
                  ELSE parse_term_loop(
                           [r.c EXCEPT !.inexact = @ \/ FMod(result, r.v) # 0],
                           TruncDiv(result, r.v))
             ELSE IF r.v = 0
                  THEN Ret(i_set_error(r.c, "Modulo by zero", <<>>), 0)
                  ELSE parse_term_loop(r.c, FMod(result, r.v)))

parse_term_loop(it, result) ==
    IF ~(~it.has_error
         /\ current_token(it).type \in {"STAR", "SLASH", "PERCENT"})
    THEN Ret(it, result)
    ELSE LET op == current_token(it).type
         IN  Bind(parse_power(advance_token(it)), LAMBDA r :
             IF op = "STAR" THEN parse_term_loop(r.c, result * r.v)
             ELSE IF op = "SLASH"
             THEN IF r.v = 0
                  THEN Ret(i_set_error(r.c, "Division by zero", <<>>), 0)
                  ELSE parse_term_loop(
                           [r.c EXCEPT !.inexact = @ \/ FMod(result, r.v) # 0],
                           TruncDiv(result, r.v))
             ELSE IF r.v = 0
                  THEN Ret(i_set_error(r.c, "Modulo by zero", <<>>), 0)
                  ELSE parse_term_loop(r.c, FMod(result, r.v)))

parse_term(it) ==
    Bind(parse_power(it), LAMBDA p : parse_term_loop(p.c, p.v))

parse_expression_loop(it, result) ==
    IF ~(~it.has_error /\ current_token(it).type \in {"PLUS", "MINUS"})
    THEN Ret(it, result)
    ELSE LET op == current_token(it).type
         IN  Bind(parse_term(advance_token(it)), LAMBDA r :
             IF op = "PLUS" THEN parse_expression_loop(r.c, result + r.v)
             ELSE parse_expression_loop(r.c, result - r.v))

parse_expression(it) ==
    Bind(parse_term(it), LAMBDA t : parse_expression_loop(t.c, t.v))

\* v is 1 when the condition holds, 0 when it does not or after an error
parse_condition(it) ==
    Bind(parse_expression(it), LAMBDA l :
    LET op == current_token(l.c).type
    IN  IF l.c.has_error THEN Ret(l.c, 0)
        ELSE IF op \notin {"EQ", "NE", "LT", "GT", "LE", "GE"}
        THEN Ret(i_set_error(l.c, "Expected comparison operator", <<>>), 0)
        ELSE Bind(parse_expression(advance_token(l.c)), LAMBDA r :
             IF r.c.has_error THEN Ret(r.c, 0)
             ELSE Ret(r.c,
                      IF CASE op = "EQ" -> l.v = r.v
                           [] op = "NE" -> l.v # r.v
                           [] op = "LT" -> l.v < r.v
                           [] op = "GT" -> l.v > r.v
                           [] op = "LE" -> l.v <= r.v
                           [] op = "GE" -> l.v >= r.v
                      THEN 1 ELSE 0)))

(***************************************************************************)
(* interpreter.c: statements.                                              *)
(***************************************************************************)
exec_rem(it) == it

\* what printf appends to stdout
Out(it, kind, num, text) ==
    [it EXCEPT !.stdout = Append(@, [kind |-> kind, num |-> num, text |-> text])]

\* the optional "(index)" after a variable name: v is the index, -1 when
\* there is none, and ok is FALSE after the "return" of a failed expect
array_index(it) ==
    IF current_token(it).type = "LPAREN"
    THEN Bind(parse_expression(advance_token(it)), LAMBDA a :
         Bind(expect(a.c, "RPAREN"), LAMBDA x :
         IF x.v = 0 THEN [c |-> x.c, v |-> a.v, ok |-> FALSE]
         ELSE [c |-> advance_token(x.c), v |-> a.v, ok |-> TRUE]))
    ELSE [c |-> it, v |-> -1, ok |-> TRUE]

\* the do-while of exec_input
RECURSIVE exec_input_loop(_)
exec_input_loop(it) ==
    LET i1 == IF current_token(it).type = "COMMA" THEN advance_token(it) ELSE it
        idx == var_index(CharAt(current_token(i1).text, 0))
    IN  IF current_token(i1).type # "IDENT"
        THEN i_set_error(i1, "Expected variable name after 'input'", <<>>)
        ELSE IF idx < 0
        THEN i_set_error(i1, "Invalid variable: %s", <<current_token(i1).text>>)
        ELSE Bind(array_index(advance_token(i1)), LAMBDA a :
             IF ~a.ok THEN a.c
             ELSE Bind(Out(a.c, "str", 0, <<63, 32>>), LAMBDA i2 :
                  IF i2.stdin = <<>> \/ ~Head(i2.stdin).ok
                  THEN i_set_error(i2, "Invalid input", <<>>)
                  ELSE IF a.v >= 0 /\ a.v >= MAX_ARRAY_SIZE
                  THEN i_set_error([i2 EXCEPT !.stdin = Tail(@)],
                           "Array index out of bounds", <<>>)
                  ELSE Bind(IF a.v >= 0
                            THEN ArraySet([i2 EXCEPT !.stdin = Tail(@)], idx,
                                          a.v, Head(i2.stdin).value)
                            ELSE VarSet([i2 EXCEPT !.stdin = Tail(@)], idx,
                                        Head(i2.stdin).value), LAMBDA i3 :
                       IF current_token(i3).type = "COMMA"
                       THEN exec_input_loop(i3)
                       ELSE i3)))

exec_input(it) == exec_input_loop(advance_token(it))

\* the string of a STRING token without its quotes
Unquote(text) ==
    IF Len(text) >= 2 /\ text[1] = 34 /\ text[Len(text)] = 34
    THEN SubSeq(text, 2, Len(text) - 1)
    ELSE text

\* the do-while of exec_print; v is TRUE when the function has returned
RECURSIVE exec_print_loop(_, _)
exec_print_loop(it, first) ==
    LET comma == current_token(it).type = "COMMA"
        i1 == IF comma THEN advance_token(it) ELSE it
        i2 == IF first /\ ~comma THEN i1 ELSE Out(i1, "str", 0, <<32>>)
        ty == current_token(i1).type
    IN  IF ty = "STRING"
        THEN Bind(advance_token(Out(i2, "str", 0,
                                    Unquote(current_token(i1).text))), LAMBDA i3 :
             IF current_token(i3).type = "COMMA"
             THEN exec_print_loop(i3, FALSE) ELSE Ret(i3, FALSE))
        ELSE IF ty = "NEWLINE" \/ ty = "EOF"
        THEN Ret(i2, FALSE)
        ELSE Bind(parse_expression(i2), LAMBDA e :
             IF e.c.has_error THEN Ret(e.c, TRUE)
             ELSE Bind(Out(e.c, "num", e.v, <<>>), LAMBDA i3 :
                  IF current_token(i3).type = "COMMA"
                  THEN exec_print_loop(i3, FALSE) ELSE Ret(i3, FALSE)))

exec_print(it) ==
    Bind(exec_print_loop(advance_token(it), TRUE), LAMBDA r :
    IF r.v THEN r.c ELSE Out(r.c, "str", 0, <<10>>))

exec_let(it) ==
    LET i1 == advance_token(it)
        idx == var_index(CharAt(current_token(i1).text, 0))
    IN  IF current_token(i1).type # "IDENT"
        THEN i_set_error(i1, "Expected variable name after 'let'", <<>>)
        ELSE IF idx < 0
        THEN i_set_error(i1, "Invalid variable: %s", <<current_token(i1).text>>)
        ELSE Bind(array_index(advance_token(i1)), LAMBDA a :
             IF ~a.ok THEN a.c
             ELSE Bind(expect(a.c, "ASSIGN"), LAMBDA x :
                  IF x.v = 0 THEN x.c
                  ELSE Bind(parse_expression(advance_token(x.c)), LAMBDA e :
                       IF e.c.has_error THEN e.c
                       ELSE IF a.v >= 0
                       THEN IF a.v >= MAX_ARRAY_SIZE
                            THEN i_set_error(e.c,
                                     "Array index out of bounds: %d", <<a.v>>)
                            ELSE ArraySet(e.c, idx, a.v, e.v)
                       ELSE VarSet(e.c, idx, e.v))))

\* the jump of GOTO and IF: the main loop adds 1 to the index afterwards
JumpTo(it, target_line) ==
    LET target_index == find_line_index(it, target_line)
    IN  IF target_index < 0
        THEN i_set_error(it, "Line %d not found", <<target_line>>)
        ELSE [it EXCEPT !.current_line_index = target_index - 1]

exec_goto(it) ==
    LET i1 == advance_token(it)
    IN  IF current_token(i1).type # "NUMBER"
        THEN i_set_error(i1, "Expected line number after 'goto'", <<>>)
        ELSE JumpTo(i1, current_token(i1).num_value)

exec_if(it) ==
    Bind(parse_condition(advance_token(it)), LAMBDA cond :
    IF cond.c.has_error THEN cond.c
    ELSE IF current_token(cond.c).type # "GOTO"
    THEN i_set_error(cond.c, "Expected 'goto' in if statement", <<>>)
    ELSE LET i1 == advance_token(cond.c)
         IN  IF current_token(i1).type # "NUMBER"
             THEN i_set_error(i1, "Expected line number after 'goto'", <<>>)
             ELSE IF cond.v # 0 THEN JumpTo(i1, current_token(i1).num_value)
             ELSE i1)

\* the scan of exec_for for the NEXT that closes a loop that is not entered
RECURSIVE for_skip(_, _, _)
for_skip(it, i, depth) ==
    IF ~(i < Len(it.lines) /\ depth > 0) THEN it
    ELSE LET l0 == advance_token(
                       lexer_reset_line(it, it.source[it.lines[i + 1].start]))
             l1 == IF current_token(l0).type = "NUMBER"
                   THEN advance_token(l0) ELSE l0
         IN  Bind(l1, LAMBDA x :
             IF current_token(x).type = "FOR" THEN for_skip(x, i + 1, depth + 1)
             ELSE IF current_token(x).type = "NEXT"
             THEN IF depth - 1 = 0 THEN [x EXCEPT !.current_line_index = i]
                  ELSE for_skip(x, i + 1, depth - 1)
             ELSE for_skip(x, i + 1, depth))

\* the end of exec_for: the loop is entered with a new frame, or skipped;
\* loop_start is the start of the line after the FOR (0, the null pointer of
\* a lines entry never filled, when the FOR is the last line)
for_enter(it, loop_var, start_value, end_value, step) ==
    LET should_loop == IF step > 0 THEN start_value <= end_value
                       ELSE start_value >= end_value
    IN  IF should_loop
        THEN IF Len(it.for_stack) >= MAX_FOR_DEPTH
             THEN i_set_error(it, "For loop nested too deep", <<>>)
             ELSE [it EXCEPT !.for_stack = Append(@,
                      [var |-> loop_var, end_value |-> end_value, step |-> step,
                       loop_start |->
                           IF it.current_line_index + 1 < Len(it.lines)
                           THEN it.lines[it.current_line_index + 2].start
                           ELSE 0,
                       next_line_index |-> -1])]
        ELSE for_skip(it, it.current_line_index + 1, 1)

exec_for(it) ==
    LET i1 == advance_token(it)
        loop_var == CharAt(current_token(i1).text, 0)
        idx == var_index(loop_var)
    IN  IF current_token(i1).type # "IDENT"
        THEN i_set_error(i1, "Expected variable after 'for'", <<>>)
        ELSE IF idx < 0 THEN i_set_error(i1, "Invalid loop variable", <<>>)
        ELSE Bind(expect(advance_token(i1), "ASSIGN"), LAMBDA x :
             IF x.v = 0 THEN x.c
             ELSE Bind(parse_expression(advance_token(x.c)), LAMBDA s :
                  IF s.c.has_error THEN s.c
                  ELSE IF current_token(s.c).type # "TO"
                  THEN i_set_error(s.c, "Expected 'to' in for statement", <<>>)
                  ELSE Bind(parse_expression(advance_token(s.c)), LAMBDA e :
                       IF e.c.has_error THEN e.c
                       ELSE Bind(IF current_token(e.c).type = "STEP"
                                 THEN parse_expression(advance_token(e.c))
                                 ELSE Ret(e.c, 1), LAMBDA st :
                            IF st.c.has_error THEN st.c
                            ELSE for_enter(VarSet(st.c, idx, s.v), loop_var,
                                           s.v, e.v, st.v)))))

exec_next_strict_bound(it) ==
    LET i1 == advance_token(it)
        loop_var == CharAt(current_token(i1).text, 0)
        idx == var_index(loop_var)
    IN  IF current_token(i1).type # "IDENT"
        THEN i_set_error(i1, "Expected variable after 'next'", <<>>)
        ELSE IF Len(i1.for_stack) = 0
        THEN i_set_error(i1, "next without for", <<>>)
        ELSE LET state == i1.for_stack[Len(i1.for_stack)]
                 current == i1.variables[idx].value + state.step
                 should_continue == IF state.step > 0
                                    THEN current < state.end_value
                                    ELSE current >= state.end_value
                 S == {i \in 0..(Len(i1.lines) - 1) :
                          i1.lines[i + 1].start = state.loop_start}
             IN  IF state.var # loop_var
                 THEN i_set_error(i1, "next variable mismatch", <<>>)
                 ELSE Bind([i1 EXCEPT !.variables[idx].value = current],
                           LAMBDA i2 :
                      IF should_continue
                      THEN IF S = {} THEN i2
                           ELSE [i2 EXCEPT !.current_line_index = MinOf(S) - 1]
                      ELSE [i2 EXCEPT !.for_stack = SubSeq(@, 1, Len(@) - 1)])

exec_next_unchecked(it) ==
    LET i1 == advance_token(it)
        loop_var == CharAt(current_token(i1).text, 0)
        idx == var_index(loop_var)
    IN  IF current_token(i1).type # "IDENT"
        THEN i_set_error(i1, "Expected variable after 'next'", <<>>)
        ELSE IF Len(i1.for_stack) = 0
        THEN i_set_error(i1, "next without for", <<>>)
        ELSE LET state == i1.for_stack[Len(i1.for_stack)]
                 current == i1.variables[idx].value + state.step
                 should_continue == IF state.step > 0
                                    THEN current <= state.end_value
                                    ELSE current >= state.end_value
                 S == {i \in 0..(Len(i1.lines) - 1) :
                          i1.lines[i + 1].start = state.loop_start}
             IN  IF FALSE
                 THEN i_set_error(i1, "next variable mismatch", <<>>)
                 ELSE Bind([i1 EXCEPT !.variables[idx].value = current],
                           LAMBDA i2 :
                      IF should_continue
                      THEN IF S = {} THEN i2
                           ELSE [i2 EXCEPT !.current_line_index = MinOf(S) - 1]
                      ELSE [i2 EXCEPT !.for_stack = SubSeq(@, 1, Len(@) - 1)])

exec_next(it) ==
    LET i1 == advance_token(it)
        loop_var == CharAt(current_token(i1).text, 0)
        idx == var_index(loop_var)
    IN  IF current_token(i1).type # "IDENT"
        THEN i_set_error(i1, "Expected variable after 'next'", <<>>)
        ELSE IF Len(i1.for_stack) = 0
        THEN i_set_error(i1, "next without for", <<>>)
        ELSE LET state == i1.for_stack[Len(i1.for_stack)]
                 current == i1.variables[idx].value + state.step
                 should_continue == IF state.step > 0
                                    THEN current <= state.end_value
                                    ELSE current >= state.end_value
                 S == {i \in 0..(Len(i1.lines) - 1) :
                          i1.lines[i + 1].start = state.loop_start}
             IN  IF state.var # loop_var
                 THEN i_set_error(i1, "next variable mismatch", <<>>)
                 ELSE Bind([i1 EXCEPT !.variables[idx].value = current],
                           LAMBDA i2 :
                      IF should_continue
                      THEN IF S = {} THEN i2
                           ELSE [i2 EXCEPT !.current_line_index = MinOf(S) - 1]
                      ELSE [i2 EXCEPT !.for_stack = SubSeq(@, 1, Len(@) - 1)])

exec_end(it) == [it EXCEPT !.running = FALSE]

execute_line(it) ==
    LET l0 == advance_token(lexer_reset_line(it,
                  it.source[it.lines[it.current_line_index + 1].start]))
    IN  Bind(IF current_token(l0).type = "NUMBER" THEN advance_token(l0) ELSE l0,
             LAMBDA i1 :
        LET ty == current_token(i1).type
        IN  CASE ty = "REM" -> exec_rem(i1)
              [] ty = "INPUT" -> exec_input(i1)
              [] ty = "PRINT" -> exec_print(i1)
              [] ty = "LET" -> exec_let(i1)
              [] ty = "GOTO" -> exec_goto(i1)
              [] ty = "IF" -> exec_if(i1)
              [] ty = "FOR" -> exec_for(i1)
              [] ty = "NEXT" -> exec_next(i1)
              [] ty = "END" -> exec_end(i1)
              [] ty = "NEWLINE" \/ ty = "EOF" -> i1
              [] OTHER -> i_set_error(i1, "Unknown statement: %s",
                                      <<current_token(i1).text>>))

(***************************************************************************)
(* interpreter.c: the public functions.                                    *)
(***************************************************************************)
interpreter_init ==
    [source |-> <<>>, toks |-> <<>>, pos |-> 0, lines |-> <<>>,
     variables |-> [v \in 0..(MAX_VARIABLES - 1) |->
                       [value |-> 0, initialized |-> FALSE]],
     arrays |-> [p \in {} |-> 0], array_initialized |-> {},
     for_stack |-> <<>>, current_line_index |-> 0, running |-> FALSE,
     error_message |-> NoMsg, has_error |-> FALSE,
     stdin |-> <<>>, stdout |-> <<>>, inexact |-> FALSE,
     h_first_error |-> NoMsg]

\* the line index: one entry per source line that begins with a number;
\* v is the return value
RECURSIVE load_lines(_, _)
load_lines(it, k) ==
    IF k > Len(it.source) THEN Ret(it, 1)
    ELSE IF it.source[k] # <<>> /\ it.source[k][1].type = "NUMBER"
    THEN IF Len(it.lines) >= MAX_LINES
         THEN Ret(i_set_error(it, "Too many lines", <<>>), 0)
         ELSE Bind([it EXCEPT !.lines = Append(@,
                        [line_number |-> it.source[k][1].num_value,
                         start |-> k])], LAMBDA i1 :
              load_lines(i1, k + 1))
    ELSE load_lines(it, k + 1)

interpreter_load(it, src) ==
    load_lines([it EXCEPT !.source = src, !.lines = <<>>], 1)

\* the first statements of interpreter_run
run_begin(it) ==
    [it EXCEPT !.running = TRUE, !.current_line_index = 0, !.has_error = FALSE]

(***************************************************************************)
(* The programs run by the interpreter: at most MaxILines lines, the k-th  *)
(* carrying the line number k, and the numbers typed on stdin.  MaxSteps   *)
(* bounds the number of lines a run executes.                              *)
(***************************************************************************)
MaxILines == 3

MaxSteps == 12

IBodies ==
    {<<Kw("FOR"), Id(105), Kw("ASSIGN"), Num(1), Kw("TO"), Num(2)>>,
     <<Kw("FOR"), Id(105), Kw("ASSIGN"), Num(2), Kw("TO"), Num(1)>>,
     <<Kw("FOR"), Id(106), Kw("ASSIGN"), Num(2), Kw("TO"), Num(1),
       Kw("STEP"), Kw("MINUS"), Num(1)>>,
     <<Kw("NEXT"), Id(105)>>,
     <<Kw("NEXT"), Id(106)>>,
     <<Kw("GOTO"), Num(1)>>,
     <<Kw("GOTO"), Num(3)>>,
     <<Kw("IF"), Id(105), Kw("GE"), Num(2), Kw("GOTO"), Num(3)>>,
     <<Kw("LET"), Id(105), Kw("ASSIGN"), Id(105), Kw("PLUS"), Num(1)>>,
     <<Kw("INPUT"), Id(105)>>,
     <<Kw("PRINT"), Id(105)>>,
     <<Kw("END")>>}

\* the programs of at most max lines, numbered from 1
IPrograms(max) ==
    UNION {{[k \in 1..n |-> <<Num(k)>> \o b[k]] : b \in [1..n -> IBodies]} :
           n \in 0..max}

\* what scanf finds on stdin: nothing, or one number
Stdins == {<<>>, <<[ok |-> TRUE, value |-> 2]>>}

(***************************************************************************)
(* sml_vm.c: the virtual machine.  The cells and the registers are C ints: *)
(* an addition, subtraction, multiplication or division whose result does  *)
(* not fit is undefined behaviour, recorded in ub, and leaves the value    *)
(* "garbage" in the accumulator.  WRITES reads its characters without a    *)
(* bounds check; h_lo and h_hi record the lowest and the highest address   *)
(* of memory the machine has accessed, h_executed the number of            *)
(* instructions that have reached the switch of sml_vm_step since the      *)
(* load.                                                                   *)
(***************************************************************************)
MAX_CYCLES == 100000

INT_MAX == 2147483647

INT_MIN == -INT_MAX - 1

\* a / b and a % b of C for b > 0
DivPos(a, b) == IF a < 0 /\ a % b # 0 THEN (a \div b) + 1 ELSE a \div b

\* a / b of C for b # 0, when it fits
IntDiv(a, b) ==
    IF b > 0 THEN DivPos(a, b)
    ELSE IF b = INT_MIN THEN (IF a = INT_MIN THEN 1 ELSE 0)
    ELSE -DivPos(a, -b)

IntMod(a, b) == a - b * IntDiv(a, b)

AddOverflows(a, b) ==
    \/ b > 0 /\ a > INT_MAX - b
    \/ b < 0 /\ a < INT_MIN - b

SubOverflows(a, b) ==
    \/ b < 0 /\ a > INT_MAX + b
    \/ b > 0 /\ a < INT_MIN + b

MulOverflows(a, b) ==
    IF a = INT_MIN THEN b # 0 /\ b # 1
    ELSE IF b = INT_MIN THEN a # 0 /\ a # 1
    ELSE IF Abs(a) <= 1 \/ Abs(b) <= 1 THEN FALSE
    ELSE IF (a > 0) = (b > 0) THEN Abs(a) > INT_MAX \div Abs(b)
    ELSE /\ Abs(a) > INT_MAX \div Abs(b)
         /\ ~(/\ INT_MAX % Abs(b) = Abs(b) - 1
              /\ Abs(a) = (INT_MAX \div Abs(b)) + 1)

DivOverflows(a, b) == a = INT_MIN /\ b = -1

vm_error(vm, fmt, args) ==
    [vm EXCEPT !.error_message = Msg(fmt, args), !.running = FALSE]

\* a read or a write of vm->memory[addr] .. vm->memory[addr2] is noted
Access(vm, lo, hi) ==
    [vm EXCEPT !.h_lo = IF lo < @ THEN lo ELSE @,
               !.h_hi = IF hi > @ THEN hi ELSE @]

sml_vm_init ==
    [memory |-> [a \in 0..(MEMORY_SIZE - 1) |-> 0],
     accumulator |-> 0, instruction_counter |-> 0,
     instruction_register |-> 0, opcode |-> 0, operand |-> 0,
     running |-> FALSE, cycle_count |-> 0, error_message |-> NoMsg,
     stdin |-> <<>>, stdout |-> <<>>, ub |-> FALSE,
     h_lo |-> 0, h_hi |-> 0, h_executed |-> 0]

sml_vm_load(vm, memory) ==
    [vm EXCEPT !.memory = memory,
               !.instruction_counter = 0,
               !.accumulator = 0,
               !.running = TRUE,
               !.cycle_count = 0,
               !.error_message = NoMsg,
               !.h_executed = 0]

\* the bytes putchar writes for the cells from..(to + 1), descending
RECURSIVE string_chars(_, _, _)
string_chars(vm, from, to) ==
    IF from <= to \/ from < 0 THEN <<>>
    ELSE (IF vm.memory[from] >= 0 /\ vm.memory[from] < 256
          THEN <<vm.memory[from]>> ELSE <<>>)
         \o string_chars(vm, from - 1, to)

\* case SML_WRITES: the cells below address 0 are outside the array
vm_writes(vm) ==
    LET str_loc == vm.operand
        len == vm.memory[str_loc]
    IN  IF len <= 0 THEN Access(vm, str_loc, str_loc)
        ELSE Bind(Out(Access(vm, str_loc - len, str_loc), "str", 0,
                      string_chars(vm, str_loc - 1, str_loc - 1 - len)),
                  LAMBDA v :
             IF len > str_loc
             THEN [Out(v, "garbage", len - str_loc, <<>>) EXCEPT !.ub = TRUE]
             ELSE v)

\* an arithmetic instruction: the result, or garbage after an overflow
vm_arith(vm, overflows, result, garbage) ==
    IF overflows
    THEN [Access(vm, vm.operand, vm.operand)
            EXCEPT !.accumulator = garbage, !.ub = TRUE]
    ELSE [Access(vm, vm.operand, vm.operand) EXCEPT !.accumulator = result]

\* the cap tested one cycle late
vm_advance_cap_late(vm, next_pc) ==
    Bind([vm EXCEPT !.instruction_counter = next_pc,
                    !.cycle_count = @ + 1], LAMBDA v :
    IF v.cycle_count > MAX_CYCLES
    THEN Ret(vm_error(v,
                 "Exceeded maximum cycles (%d), possible infinite loop",
                 <<MAX_CYCLES>>), 0)
    ELSE Ret(v, 1))

\* the end of a step that did not return early
vm_advance(vm, next_pc) ==
    Bind([vm EXCEPT !.instruction_counter = next_pc,
                    !.cycle_count = @ + 1], LAMBDA v :
    IF v.cycle_count >= MAX_CYCLES
    THEN Ret(vm_error(v,
                 "Exceeded maximum cycles (%d), possible infinite loop",
                 <<MAX_CYCLES>>), 0)
    ELSE Ret(v, 1))

\* case SML_DIVIDE and case SML_MOD: the divisor is tested first
vm_divide_clears_accumulator(vm, fmt, is_mod, garbage) ==
    LET cell == vm.memory[vm.operand]
        ac == vm.accumulator
    IN  IF cell = 0
        THEN Ret(vm_error([Access(vm, vm.operand, vm.operand)
                             EXCEPT !.accumulator = 0],
                     fmt, <<vm.instruction_counter>>), 0)
        ELSE vm_advance(vm_arith(vm, DivOverflows(ac, cell),
                                 IF is_mod THEN IntMod(ac, cell)
                                 ELSE IntDiv(ac, cell), garbage),
                        vm.instruction_counter + 1)

vm_divide(vm, fmt, is_mod, garbage) ==
    LET cell == vm.memory[vm.operand]
        ac == vm.accumulator
    IN  IF cell = 0
        THEN Ret(vm_error(Access(vm, vm.operand, vm.operand),
                     fmt, <<vm.instruction_counter>>), 0)
        ELSE vm_advance(vm_arith(vm, DivOverflows(ac, cell),
                                 IF is_mod THEN IntMod(ac, cell)
                                 ELSE IntDiv(ac, cell), garbage),
                        vm.instruction_counter + 1)

\* the switch with a HALT that is counted as a cycle
vm_execute_halt_counted(vm, garbage) ==
    LET op == vm.opcode
        cell == vm.memory[vm.operand]
        ac == vm.accumulator
        pc == vm.instruction_counter
        next_pc == pc + 1
    IN  CASE op = SML_READ ->
               Bind(Out(vm, "str", 0, <<63, 32>>), LAMBDA v :
               IF v.stdin = <<>> \/ ~Head(v.stdin).ok
               THEN Ret(vm_error(v, "Invalid input", <<>>), 0)
               ELSE vm_advance(
                        [Access(v, v.operand, v.operand)
                           EXCEPT !.memory[v.operand] = Head(v.stdin).value,
                                  !.stdin = Tail(@)], next_pc))
          [] op = SML_WRITE ->
               vm_advance(Out(Access(vm, vm.operand, vm.operand),
                              "num", cell, <<>>), next_pc)
          [] op = SML_NEWLINE ->
               vm_advance(Out(vm, "str", 0, <<10>>), next_pc)
          [] op = SML_WRITES -> vm_advance(vm_writes(vm), next_pc)
          [] op = SML_LOAD ->
               vm_advance(vm_arith(vm, FALSE, cell, garbage), next_pc)
          [] op = SML_STORE ->
               vm_advance([Access(vm, vm.operand, vm.operand)
                             EXCEPT !.memory[vm.operand] = ac], next_pc)
          [] op = SML_ADD ->
               vm_advance(vm_arith(vm, AddOverflows(ac, cell),
                                   ac + cell, garbage), next_pc)
          [] op = SML_SUBTRACT ->
               vm_advance(vm_arith(vm, SubOverflows(ac, cell),
                                   ac - cell, garbage), next_pc)
          [] op = SML_DIVIDE ->
               vm_divide(vm, "Division by zero at PC=%d", FALSE, garbage)
          [] op = SML_MULTIPLY ->
               vm_advance(vm_arith(vm, MulOverflows(ac, cell),
                                   ac * cell, garbage), next_pc)
          [] op = SML_MOD ->
               vm_divide(vm, "Modulo by zero at PC=%d", TRUE, garbage)
          [] op = SML_BRANCH -> vm_advance(vm, vm.operand)
          [] op = SML_BRANCHNEG ->
               vm_advance(vm, IF ac < 0 THEN vm.operand ELSE next_pc)
          [] op = SML_BRANCHZERO ->
               vm_advance(vm, IF ac = 0 THEN vm.operand ELSE next_pc)
          [] op = SML_HALT ->
               Ret([vm EXCEPT !.running = FALSE, !.cycle_count = @ + 1], 0)
          [] OTHER ->
               Ret(vm_error(vm, "Unknown opcode %d at PC=%d", <<op, pc>>), 0)

\* the switch of sml_vm_step, after fetch and decode
vm_execute(vm, garbage) ==
    LET op == vm.opcode
        cell == vm.memory[vm.operand]
        ac == vm.accumulator
        pc == vm.instruction_counter
        next_pc == pc + 1
    IN  CASE op = SML_READ ->
               Bind(Out(vm, "str", 0, <<63, 32>>), LAMBDA v :
               IF v.stdin = <<>> \/ ~Head(v.stdin).ok
               THEN Ret(vm_error(v, "Invalid input", <<>>), 0)
               ELSE vm_advance(
                        [Access(v, v.operand, v.operand)
                           EXCEPT !.memory[v.operand] = Head(v.stdin).value,
                                  !.stdin = Tail(@)], next_pc))
          [] op = SML_WRITE ->
               vm_advance(Out(Access(vm, vm.operand, vm.operand),
                              "num", cell, <<>>), next_pc)
          [] op = SML_NEWLINE ->
               vm_advance(Out(vm, "str", 0, <<10>>), next_pc)
          [] op = SML_WRITES -> vm_advance(vm_writes(vm), next_pc)
          [] op = SML_LOAD ->
               vm_advance(vm_arith(vm, FALSE, cell, garbage), next_pc)
          [] op = SML_STORE ->
               vm_advance([Access(vm, vm.operand, vm.operand)
                             EXCEPT !.memory[vm.operand] = ac], next_pc)
          [] op = SML_ADD ->
               vm_advance(vm_arith(vm, AddOverflows(ac, cell),
                                   ac + cell, garbage), next_pc)
          [] op = SML_SUBTRACT ->
               vm_advance(vm_arith(vm, SubOverflows(ac, cell),
                                   ac - cell, garbage), next_pc)
          [] op = SML_DIVIDE ->
               vm_divide(vm, "Division by zero at PC=%d", FALSE, garbage)
          [] op = SML_MULTIPLY ->
               vm_advance(vm_arith(vm, MulOverflows(ac, cell),
                                   ac * cell, garbage), next_pc)
          [] op = SML_MOD ->
               vm_divide(vm, "Modulo by zero at PC=%d", TRUE, garbage)
          [] op = SML_BRANCH -> vm_advance(vm, vm.operand)
          [] op = SML_BRANCHNEG ->
               vm_advance(vm, IF ac < 0 THEN vm.operand ELSE next_pc)
          [] op = SML_BRANCHZERO ->
               vm_advance(vm, IF ac = 0 THEN vm.operand ELSE next_pc)
          [] op = SML_HALT -> Ret([vm EXCEPT !.running = FALSE], 0)
          [] OTHER ->
               Ret(vm_error(vm, "Unknown opcode %d at PC=%d", <<op, pc>>), 0)

\* the step without the test for a negative operand
sml_vm_step_operand_unsigned(vm, garbage) ==
    IF ~vm.running THEN Ret(vm, 0)
    ELSE IF vm.instruction_counter < 0 \/ vm.instruction_counter >= MEMORY_SIZE
    THEN Ret(vm_error(vm, "Invalid instruction counter: %d",
                 <<vm.instruction_counter>>), 0)
    ELSE Bind([Access(vm, vm.instruction_counter, vm.instruction_counter)
                 EXCEPT !.instruction_register =
                            vm.memory[vm.instruction_counter],
                        !.opcode =
                            DivPos(vm.memory[vm.instruction_counter], 100),
                        !.operand =
                            vm.memory[vm.instruction_counter]
                            - 100 * DivPos(vm.memory[vm.instruction_counter],
                                           100)], LAMBDA v :
         IF v.operand >= MEMORY_SIZE
         THEN Ret(vm_error(v, "Invalid operand: %d at PC=%d",
                      <<v.operand, v.instruction_counter>>), 0)
         ELSE vm_execute([v EXCEPT !.h_executed = @ + 1], garbage))

\* v is the return value: 1 to go on, 0 after a stop
sml_vm_step(vm, garbage) ==
    IF ~vm.running THEN Ret(vm, 0)
    ELSE IF vm.instruction_counter < 0 \/ vm.instruction_counter >= MEMORY_SIZE
    THEN Ret(vm_error(vm, "Invalid instruction counter: %d",
                 <<vm.instruction_counter>>), 0)
    ELSE Bind([Access(vm, vm.instruction_counter, vm.instruction_counter)
                 EXCEPT !.instruction_register =
                            vm.memory[vm.instruction_counter],
                        !.opcode =
                            DivPos(vm.memory[vm.instruction_counter], 100),
                        !.operand =
                            vm.memory[vm.instruction_counter]
                            - 100 * DivPos(vm.memory[vm.instruction_counter],
                                           100)], LAMBDA v :
         IF v.operand < 0 \/ v.operand >= MEMORY_SIZE
         THEN Ret(vm_error(v, "Invalid operand: %d at PC=%d",
                      <<v.operand, v.instruction_counter>>), 0)
         ELSE vm_execute([v EXCEPT !.h_executed = @ + 1], garbage))

\* a return value that ignores the error text
vm_run_result_always_success(vm) == IF vm.running THEN 0 ELSE 1

\* the value sml_vm_run returns once the loop has ended
vm_run_result(vm) == IF vm.error_message # NoMsg THEN 0 ELSE 1

(***************************************************************************)
(* lexer.c at the level of bytes.  A buffer is a sequence of bytes other   *)
(* than 0, followed in memory by the terminating 0; start and current are  *)
(* offsets into it.  A token is the Token structure with all five fields;  *)
(* its text is a sequence of bytes and its numeric value the decimal       *)
(* number num / 10^scale that strtod reads (the rounding to a double is    *)
(* not modelled).                                                          *)
(***************************************************************************)
MAX_TOKEN_TEXT == 255

isdigit(ch) == ch >= 48 /\ ch <= 57

isalpha(ch) == (ch >= 65 /\ ch <= 90) \/ (ch >= 97 /\ ch <= 122)

isalnum(ch) == isdigit(ch) \/ isalpha(ch)

\* the table of keywords, in the order of the source: rem, input, print,
\* let, goto, if, for, to, step, next, end
keywords ==
    <<[name |-> <<114, 101, 109>>, type |-> "REM"],
      [name |-> <<105, 110, 112, 117, 116>>, type |-> "INPUT"],
      [name |-> <<112, 114, 105, 110, 116>>, type |-> "PRINT"],
      [name |-> <<108, 101, 116>>, type |-> "LET"],
      [name |-> <<103, 111, 116, 111>>, type |-> "GOTO"],
      [name |-> <<105, 102>>, type |-> "IF"],
      [name |-> <<102, 111, 114>>, type |-> "FOR"],
      [name |-> <<116, 111>>, type |-> "TO"],
      [name |-> <<115, 116, 101, 112>>, type |-> "STEP"],
      [name |-> <<110, 101, 120, 116>>, type |-> "NEXT"],
      [name |-> <<101, 110, 100>>, type |-> "END"]>>

\* the messages of the error tokens: "Unterminated string", "Unexpected
\* character", "Expected '=' after '!'"
UnterminatedString ==
    <<85, 110, 116, 101, 114, 109, 105, 110, 97, 116, 101, 100, 32,
      115, 116, 114, 105, 110, 103>>

UnexpectedCharacter ==
    <<85, 110, 101, 120, 112, 101, 99, 116, 101, 100, 32,
      99, 104, 97, 114, 97, 99, 116, 101, 114>>

ExpectedEquals ==
    <<69, 120, 112, 101, 99, 116, 101, 100, 32, 39, 61, 39, 32,
      97, 102, 116, 101, 114, 32, 39, 33, 39>>

lexer_init(src) ==
    [source |-> src, start |-> 0, current |-> 0, line |-> 1, column |-> 1]

\* the byte at an offset; the byte after the last one is the terminator
ByteAt(lexer, i) ==
    IF i >= 0 /\ i < Len(lexer.source) THEN lexer.source[i + 1] ELSE 0

is_at_end(lexer) == ByteAt(lexer, lexer.current) = 0

\* advance returns the byte peek gives before it
advance(lexer) == [lexer EXCEPT !.column = @ + 1, !.current = @ + 1]

peek(lexer) == ByteAt(lexer, lexer.current)

peek_next(lexer) ==
    IF is_at_end(lexer) THEN 0 ELSE ByteAt(lexer, lexer.current + 1)

match(lexer, expected) ==
    IF is_at_end(lexer) THEN Ret(lexer, 0)
    ELSE IF peek(lexer) # expected THEN Ret(lexer, 0)
    ELSE Ret([lexer EXCEPT !.current = @ + 1, !.column = @ + 1], 1)

RECURSIVE skip_whitespace(_)
skip_whitespace(lexer) ==
    IF peek(lexer) \in {32, 9, 13} THEN skip_whitespace(advance(lexer))
    ELSE lexer

make_token(lexer, type) ==
    [type |-> type,
     text |-> SubSeq(lexer.source, lexer.start + 1,
                     IF lexer.current - lexer.start > MAX_TOKEN_TEXT
                     THEN lexer.start + MAX_TOKEN_TEXT ELSE lexer.current),
     num_value |-> [num |-> 0, scale |-> 0],
     line |-> lexer.line,
     column |-> lexer.column - (lexer.current - lexer.start)]

error_token(lexer, message) ==
    [type |-> "ERROR",
     text |-> SubSeq(message, 1, IF Len(message) > MAX_TOKEN_TEXT
                                 THEN MAX_TOKEN_TEXT ELSE Len(message)),
     num_value |-> [num |-> 0, scale |-> 0],
     line |-> lexer.line,
     column |-> lexer.column]

\* strtod on digits with an optional fraction: the digits before position k
\* read so far as num / 10^scale; zeros at the end of a fraction do not
\* change the value
RECURSIVE strtod_from(_, _, _, _)
strtod_from(text, k, num, scale) ==
    IF k > Len(text) THEN [num |-> num, scale |-> scale]
    ELSE IF text[k] = 46 THEN strtod_from(text, k + 1, num, 0)
    ELSE strtod_from(text, k + 1, num * 10 + (text[k] - 48),
                     IF scale < 0 THEN scale ELSE scale + 1)

RECURSIVE Reduced(_)
Reduced(v) ==
    IF v.scale > 0 /\ v.num % 10 = 0
    THEN Reduced([num |-> v.num \div 10, scale |-> v.scale - 1])
    ELSE IF v.scale < 0 THEN [num |-> v.num, scale |-> 0]
    ELSE v

strtod(text) == Reduced(strtod_from(text, 1, 0, -1))

RECURSIVE scan_digits(_)
scan_digits(lexer) ==
    IF isdigit(peek(lexer)) THEN scan_digits(advance(lexer)) ELSE lexer

\* the scanners give the lexer after the token (c) and the token (v)
scan_number(lexer) ==
    LET l1 == scan_digits(lexer)
        is_float == peek(l1) = 46 /\ isdigit(peek_next(l1))
        l2 == IF is_float THEN scan_digits(advance(l1)) ELSE l1
        token == make_token(l2, IF is_float THEN "FLOAT" ELSE "NUMBER")
    IN  Ret(l2, [token EXCEPT !.num_value = strtod(token.text)])

RECURSIVE scan_string(_)
scan_string(lexer) ==
    IF peek(lexer) # 34 /\ ~is_at_end(lexer)
    THEN IF peek(lexer) = 10
         THEN Ret(lexer, error_token(lexer, UnterminatedString))
         ELSE scan_string(advance(lexer))
    ELSE IF is_at_end(lexer)
    THEN Ret(lexer, error_token(lexer, UnterminatedString))
    ELSE Ret(advance(lexer), make_token(advance(lexer), "STRING"))

RECURSIVE scan_name(_)
scan_name(lexer) ==
    IF isalnum(peek(lexer)) \/ peek(lexer) = 95
    THEN scan_name(advance(lexer)) ELSE lexer

\* strcasecmp(a, b) = 0
SameIgnoringCase(a, b) ==
    /\ Len(a) = Len(b)
    /\ \A k \in 1..Len(a) : ToLower(a[k]) = ToLower(b[k])

scan_identifier(lexer) ==
    LET l1 == scan_name(lexer)
        token == make_token(l1, "IDENT")
        found == {i \in 1..Len(keywords) :
                     SameIgnoringCase(token.text, keywords[i].name)}
    IN  Ret(l1, IF found = {} THEN token
                ELSE [token EXCEPT !.type = keywords[MinOf(found)].type])

scan_operator_unexpected_unconsumed(lexer, ch) ==
    CASE ch = 43 -> Ret(lexer, make_token(lexer, "PLUS"))
      [] ch = 45 -> Ret(lexer, make_token(lexer, "MINUS"))
      [] ch = 42 -> Ret(lexer, make_token(lexer, "STAR"))
      [] ch = 47 -> Ret(lexer, make_token(lexer, "SLASH"))
      [] ch = 37 -> Ret(lexer, make_token(lexer, "PERCENT"))
      [] ch = 94 -> Ret(lexer, make_token(lexer, "CARET"))
      [] ch = 44 -> Ret(lexer, make_token(lexer, "COMMA"))
      [] ch = 40 -> Ret(lexer, make_token(lexer, "LPAREN"))
      [] ch = 41 -> Ret(lexer, make_token(lexer, "RPAREN"))
      [] ch = 61 ->
           Bind(match(lexer, 61), LAMBDA m :
           Ret(m.c, make_token(m.c, IF m.v = 1 THEN "EQ" ELSE "ASSIGN")))
      [] ch = 33 ->
           Bind(match(lexer, 61), LAMBDA m :
           Ret(m.c, IF m.v = 1 THEN make_token(m.c, "NE")
                    ELSE error_token(m.c, ExpectedEquals)))
      [] ch = 60 ->
           Bind(match(lexer, 61), LAMBDA m :
           Ret(m.c, make_token(m.c, IF m.v = 1 THEN "LE" ELSE "LT")))
      [] ch = 62 ->
           Bind(match(lexer, 61), LAMBDA m :
           Ret(m.c, make_token(m.c, IF m.v = 1 THEN "GE" ELSE "GT")))
      [] OTHER -> Ret([lexer EXCEPT !.current = @ - 1, !.column = @ - 1],
                      error_token(lexer, UnexpectedCharacter))

\* the switch without the lookahead byte: < and > never take a following =
scan_operator_no_lookahead(lexer, ch) ==
    CASE ch = 43 -> Ret(lexer, make_token(lexer, "PLUS"))
      [] ch = 45 -> Ret(lexer, make_token(lexer, "MINUS"))
      [] ch = 42 -> Ret(lexer, make_token(lexer, "STAR"))
      [] ch = 47 -> Ret(lexer, make_token(lexer, "SLASH"))
      [] ch = 37 -> Ret(lexer, make_token(lexer, "PERCENT"))
      [] ch = 94 -> Ret(lexer, make_token(lexer, "CARET"))
      [] ch = 44 -> Ret(lexer, make_token(lexer, "COMMA"))
      [] ch = 40 -> Ret(lexer, make_token(lexer, "LPAREN"))
      [] ch = 41 -> Ret(lexer, make_token(lexer, "RPAREN"))
      [] ch = 61 ->
           Bind(match(lexer, 61), LAMBDA m :
           Ret(m.c, make_token(m.c, IF m.v = 1 THEN "EQ" ELSE "ASSIGN")))
      [] ch = 33 ->
           Bind(match(lexer, 61), LAMBDA m :
           Ret(m.c, IF m.v = 1 THEN make_token(m.c, "NE")
                    ELSE error_token(m.c, ExpectedEquals)))
      [] ch = 60 -> Ret(lexer, make_token(lexer, "LT"))
      [] ch = 62 -> Ret(lexer, make_token(lexer, "GT"))
      [] OTHER -> Ret(lexer, error_token(lexer, UnexpectedCharacter))

\* the switch of lexer_next_token, for the byte ch that was consumed
scan_operator(lexer, ch) ==
    CASE ch = 43 -> Ret(lexer, make_token(lexer, "PLUS"))
      [] ch = 45 -> Ret(lexer, make_token(lexer, "MINUS"))
      [] ch = 42 -> Ret(lexer, make_token(lexer, "STAR"))
      [] ch = 47 -> Ret(lexer, make_token(lexer, "SLASH"))
      [] ch = 37 -> Ret(lexer, make_token(lexer, "PERCENT"))
      [] ch = 94 -> Ret(lexer, make_token(lexer, "CARET"))
      [] ch = 44 -> Ret(lexer, make_token(lexer, "COMMA"))
      [] ch = 40 -> Ret(lexer, make_token(lexer, "LPAREN"))
      [] ch = 41 -> Ret(lexer, make_token(lexer, "RPAREN"))
      [] ch = 61 ->
           Bind(match(lexer, 61), LAMBDA m :
           Ret(m.c, make_token(m.c, IF m.v = 1 THEN "EQ" ELSE "ASSIGN")))
      [] ch = 33 ->
           Bind(match(lexer, 61), LAMBDA m :
           Ret(m.c, IF m.v = 1 THEN make_token(m.c, "NE")
                    ELSE error_token(m.c, ExpectedEquals)))
      [] ch = 60 ->
           Bind(match(lexer, 61), LAMBDA m :
           Ret(m.c, make_token(m.c, IF m.v = 1 THEN "LE" ELSE "LT")))
      [] ch = 62 ->
           Bind(match(lexer, 61), LAMBDA m :
           Ret(m.c, make_token(m.c, IF m.v = 1 THEN "GE" ELSE "GT")))
      [] OTHER -> Ret(lexer, error_token(lexer, UnexpectedCharacter))

lexer_next_token(lexer) ==
    Bind(skip_whitespace(lexer), LAMBDA l0 :
    Bind([l0 EXCEPT !.start = l0.current], LAMBDA l1 :
    IF is_at_end(l1) THEN Ret(l1, make_token(l1, "EOF"))
    ELSE Bind(advance(l1), LAMBDA l2 :
         IF peek(l1) = 10
         THEN Ret([l2 EXCEPT !.line = @ + 1, !.column = 1],
                  make_token(l2, "NEWLINE"))
         ELSE IF isdigit(peek(l1)) THEN scan_number(l2)
         ELSE IF isalpha(peek(l1)) \/ peek(l1) = 95 THEN scan_identifier(l2)
         ELSE IF peek(l1) = 34 THEN scan_string(l2)
         ELSE scan_operator(l2, peek(l1)))))

lexer_peek_token_line_kept(lexer) ==
    Bind(lexer_next_token(lexer), LAMBDA r :
    Ret([r.c EXCEPT !.start = lexer.start,
                    !.current = lexer.current,
                    !.column = lexer.column], r.v))

lexer_peek_token(lexer) ==
    Bind(lexer_next_token(lexer), LAMBDA r :
    Ret([r.c EXCEPT !.start = lexer.start,
                    !.current = lexer.current,
                    !.line = lexer.line,
                    !.column = lexer.column], r.v))

lexer_reset_line_to_column_kept(lexer, line_start) ==
    [lexer EXCEPT !.start = line_start, !.current = line_start]

\* lexer_reset_line of lexer.c, with the pointer line_start as an offset
lexer_reset_line_to(lexer, line_start) ==
    [lexer EXCEPT !.start = line_start, !.current = line_start, !.column = 1]

(***************************************************************************)
(* The three programs as state machines.                                   *)
(* compiler_compile takes one source line per step of pass one, then runs  *)
(* pass two and returns; interpreter_run executes one line per step;       *)
(* sml_vm_run executes one instruction per step.                           *)
(*   source   the lines of the program being compiled or run               *)
(*   nlines   the number of lines pass one has taken                       *)
(*   comp     the Compiler structure                                       *)
(*   cpc      "pass1" in the line loop, "done" after the return,           *)
(*            "crashed" after an out-of-bounds write ended the process,    *)
(*            "idle" when the interpreter is the program run               *)
(*   cresult  the value returned by compiler_compile (-1 before)           *)
(*   resolved pass two has been run                                        *)
(*   interp   the Interpreter structure, with stdin and stdout             *)
(*   ipc      "init" after interpreter_init, "loaded", "load_failed",      *)
(*            "running" in the loop of interpreter_run, "done" after its   *)
(*            return, "idle" when the compiler is the program run          *)
(*   iresult  the value returned by interpreter_run (-1 before)            *)
(*   isteps   the number of lines executed so far                          *)
(*   image    the memory image handed to sml_vm_load                       *)
(*   vm       the SML_VM structure, with stdin and stdout                  *)
(*   vpc      "init" after sml_vm_init, "running" in the loop of           *)
(*            sml_vm_run, "done" after its return, "crashed" after         *)
(*            undefined behaviour ended the process, "idle" when the       *)
(*            machine is not used                                          *)
(*   vresult  the value returned by sml_vm_run (-1 before)                 *)
(*   lexer    the Lexer structure, with the buffer it reads                *)
(*   lpc      "pass1" up to the reset of the lexer, "pass2" after it,      *)
(*            "idle" when the lexer is not used on its own                 *)
(*   ltoks    the tokens lexer_next_token returned before the reset        *)
(*   ltoks2   the tokens it returned after the reset                       *)
(*   peeked   the tokens lexer_peek_token returned since the last call of  *)
(*            lexer_next_token                                             *)
(***************************************************************************)
VARIABLES source, nlines, comp, cpc, cresult, resolved,
          interp, ipc, iresult, isteps,
          image, vm, vpc, vresult,
          lexer, lpc, ltoks, ltoks2, peeked,
          proc

vars == <<source, nlines, comp, cpc, cresult, resolved,
          interp, ipc, iresult, isteps,
          image, vm, vpc, vresult,
          lexer, lpc, ltoks, ltoks2, peeked,
          proc>>

vmvars == <<image, vm, vpc, vresult>>

lexvars == <<lexer, lpc, ltoks, ltoks2, peeked>>

\* the lexer before any use
LexIdle ==
    /\ lexer = lexer_init(<<>>)
    /\ lpc = "idle"
    /\ ltoks = <<>>
    /\ ltoks2 = <<>>
    /\ peeked = <<>>

\* no process of main.c: the components are driven directly
ProcIdle ==
    proc = [pc |-> "idle", mode |-> 0, has_file |-> TRUE, readable |-> TRUE,
            writable |-> TRUE, stderr |-> <<>>, sml_written |-> FALSE,
            sml |-> <<>>, exit_code |-> -1]

\* the machine before any use
VMIdle ==
    /\ image = sml_vm_init.memory
    /\ vm = sml_vm_init
    /\ vpc = "idle"
    /\ vresult = -1

Init ==
    /\ source \in Programs
    /\ nlines = 0
    /\ comp = compiler_init
    /\ cpc = "pass1"
    /\ cresult = -1
    /\ resolved = FALSE
    /\ interp = interpreter_init
    /\ ipc = "idle"
    /\ iresult = -1
    /\ isteps = 0
    /\ VMIdle
    /\ LexIdle
    /\ ProcIdle

\* one iteration of the line loop of compiler_compile; a line that wrote
\* outside the memory array either brings the process down or goes on as if
\* the write had not happened
CompileLine ==
    /\ cpc = "pass1"
    /\ nlines < Len(source)
    /\ comp' = compile_line(comp, source[nlines + 1])
    /\ nlines' = nlines + 1
    /\ IF comp'.ub
       THEN /\ cpc' \in {"crashed", "done"}
            /\ cresult' = IF cpc' = "done" THEN 0 ELSE -1
       ELSE IF comp'.has_error
       THEN cpc' = "done" /\ cresult' = 0
       ELSE cpc' = "pass1" /\ cresult' = cresult
    /\ UNCHANGED <<source, resolved, interp, ipc, iresult, isteps>>
    /\ UNCHANGED vmvars
    /\ UNCHANGED lexvars
    /\ UNCHANGED proc

\* the end of the source: pass two, and the return value
Pass2 ==
    /\ cpc = "pass1"
    /\ nlines = Len(source)
    /\ comp' = resolve_flags(comp)
    /\ cpc' = "done"
    /\ cresult' = IF comp'.has_error THEN 0 ELSE 1
    /\ resolved' = TRUE
    /\ UNCHANGED <<source, nlines, interp, ipc, iresult, isteps>>
    /\ UNCHANGED vmvars
    /\ UNCHANGED lexvars
    /\ UNCHANGED proc

Next == CompileLine \/ Pass2

Spec == Init /\ [][Next]_vars

\* the interpreter after interpreter_init, with a program to load
InitInterp ==
    /\ source \in IPrograms(MaxILines)
    /\ nlines = 0
    /\ comp = compiler_init
    /\ cpc = "idle"
    /\ cresult = -1
    /\ resolved = FALSE
    /\ interp \in {[interpreter_init EXCEPT !.stdin = s] : s \in Stdins}
    /\ ipc = "init"
    /\ iresult = -1
    /\ isteps = 0
    /\ VMIdle
    /\ LexIdle
    /\ ProcIdle

Load ==
    /\ ipc = "init"
    /\ \E r \in {interpreter_load(interp, source)} :
           /\ interp' = r.c
           /\ ipc' = IF r.v = 1 THEN "loaded" ELSE "load_failed"
    /\ UNCHANGED <<source, nlines, comp, cpc, cresult, resolved,
                   iresult, isteps>>
    /\ UNCHANGED vmvars
    /\ UNCHANGED lexvars
    /\ UNCHANGED proc

\* the entry of interpreter_run
Run ==
    /\ ipc = "loaded"
    /\ interp' = run_begin(interp)
    /\ ipc' = "running"
    /\ UNCHANGED <<source, nlines, comp, cpc, cresult, resolved,
                   iresult, isteps>>
    /\ UNCHANGED vmvars
    /\ UNCHANGED lexvars
    /\ UNCHANGED proc

\* one iteration of the loop of interpreter_run, of a run of at most cap
\* iterations
ExecuteLineWithin(cap) ==
    /\ ipc = "running"
    /\ interp.running
    /\ interp.current_line_index < Len(interp.lines)
    /\ isteps < cap
    /\ \E it \in {execute_line(interp)} :
           IF it.has_error
           THEN interp' = it /\ ipc' = "done" /\ iresult' = 0
           ELSE /\ interp' = [it EXCEPT !.current_line_index = @ + 1]
                /\ ipc' = "running"
                /\ iresult' = iresult
    /\ isteps' = isteps + 1
    /\ UNCHANGED <<source, nlines, comp, cpc, cresult, resolved>>
    /\ UNCHANGED vmvars
    /\ UNCHANGED lexvars
    /\ UNCHANGED proc

ExecuteLine == ExecuteLineWithin(MaxSteps)

\* the loop of interpreter_run ends: END was executed or the last line passed
RunReturn ==
    /\ ipc = "running"
    /\ ~(interp.running /\ interp.current_line_index < Len(interp.lines))
    /\ ipc' = "done"
    /\ iresult' = 1
    /\ UNCHANGED <<source, nlines, comp, cpc, cresult, resolved,
                   interp, isteps>>
    /\ UNCHANGED vmvars
    /\ UNCHANGED lexvars
    /\ UNCHANGED proc

NextInterp == Load \/ Run \/ ExecuteLine \/ RunReturn

SpecInterp == InitInterp /\ [][NextInterp]_vars

(***************************************************************************)
(* Deep nesting: programs of FOR lines, NEXT lines and FOR lines again,    *)
(* at most MaxNestLines lines, given either to the compiler or to the      *)
(* interpreter.                                                            *)
(***************************************************************************)
MaxNestLines == 11

NestFor == <<Kw("FOR"), Id(105), Kw("ASSIGN"), Num(1), Kw("TO"), Num(2)>>

NestNext == <<Kw("NEXT"), Id(105)>>

NestProgram(a, b, n) ==
    [k \in 1..n |-> <<Num(k)>> \o (IF k <= a \/ k > a + b THEN NestFor
                                   ELSE NestNext)]

NestPrograms ==
    {NestProgram(a, b, n) : a \in 0..MaxNestLines, b \in 0..MaxNestLines,
                            n \in 0..MaxNestLines}

InitNest ==
    /\ source \in NestPrograms
    /\ nlines = 0
    /\ comp = compiler_init
    /\ cresult = -1
    /\ resolved = FALSE
    /\ interp = interpreter_init
    /\ iresult = -1
    /\ isteps = 0
    /\ VMIdle
    /\ \/ cpc = "pass1" /\ ipc = "idle"
       \/ cpc = "idle" /\ ipc = "init"
    /\ LexIdle
    /\ ProcIdle

NextNest == CompileLine \/ Pass2 \/ Load \/ Run \/ ExecuteLine \/ RunReturn

SpecNest == InitNest /\ [][NextNest]_vars

(***************************************************************************)
(* The machine run on memory images.  An image holds LOAD 98, MaxWords     *)
(* words from VMWords and HALT from address 0 on, and two data words in    *)
(* the cells 98 and 99.  Garbage is what an overflowed operation leaves in *)
(* the accumulator.                                                        *)
(***************************************************************************)
MaxWords == 2

Word(opcode, operand) == opcode * 100 + operand

VMWords ==
    {Word(SML_READ, 98), Word(SML_WRITE, 98), Word(SML_NEWLINE, 0),
     Word(SML_WRITES, 98), Word(SML_LOAD, 99), Word(SML_STORE, 99),
     Word(SML_ADD, 98), Word(SML_SUBTRACT, 99), Word(SML_DIVIDE, 99),
     Word(SML_MULTIPLY, 98), Word(SML_MOD, 99), Word(SML_BRANCH, 98),
     Word(SML_BRANCHNEG, 99), Word(SML_BRANCHZERO, 99), Word(SML_HALT, 0)}

VMData ==
    {<<-7, 3>>, <<0, Word(SML_LOAD, 98)>>, <<3, 0>>, <<100, -1>>,
     <<-2000, 3>>, <<INT_MAX, INT_MAX>>, <<INT_MIN, -1>>,
     <<Word(SML_NEWLINE, 0), Word(SML_LOAD, 98)>>}

Garbage == {-2, 0, 1}

MkImage(code, data) ==
    [a \in 0..(MEMORY_SIZE - 1) |->
        IF a < Len(code) THEN code[a + 1]
        ELSE IF a >= MEMORY_SIZE - Len(data) THEN data[a - MEMORY_SIZE + Len(data) + 1]
        ELSE 0]

\* LOAD 50, HALT, and -7 in cell 50
NegativeConstantImage ==
    [MkImage(<<Word(SML_LOAD, 50), Word(SML_HALT, 0)>>, <<>>) EXCEPT ![50] = -7]

VMImages ==
    {MkImage(<<Word(SML_LOAD, 98)>> \o w \o <<Word(SML_HALT, 0)>>, d) :
        w \in [1..MaxWords -> VMWords], d \in VMData}
    \cup {NegativeConstantImage}

\* the machine after sml_vm_init, with an image to load
InitVM ==
    /\ source = <<>>
    /\ nlines = 0
    /\ comp = compiler_init
    /\ cpc = "idle"
    /\ cresult = -1
    /\ resolved = FALSE
    /\ interp = interpreter_init
    /\ ipc = "idle"
    /\ iresult = -1
    /\ isteps = 0
    /\ image \in VMImages
    /\ vm \in {[sml_vm_init EXCEPT !.stdin = s] : s \in Stdins}
    /\ vpc = "init"
    /\ vresult = -1
    /\ LexIdle
    /\ ProcIdle

VMLoad ==
    /\ vpc = "init"
    /\ vm' = sml_vm_load(vm, image)
    /\ vpc' = "running"
    /\ UNCHANGED <<source, nlines, comp, cpc, cresult, resolved,
                   interp, ipc, iresult, isteps, image, vresult>>
    /\ UNCHANGED lexvars
    /\ UNCHANGED proc

\* one iteration of the loop of sml_vm_run; a step with undefined behaviour
\* either brings the process down or goes on
VMStep ==
    /\ vpc = "running"
    /\ vm.running
    /\ \E g \in Garbage :
           \E r \in {sml_vm_step(vm, g)} :
               /\ vm' = r.c
               /\ IF r.c.ub THEN vpc' \in {"running", "crashed"}
                  ELSE vpc' = "running"
    /\ UNCHANGED <<source, nlines, comp, cpc, cresult, resolved,
                   interp, ipc, iresult, isteps, image, vresult>>
    /\ UNCHANGED lexvars
    /\ UNCHANGED proc

\* the loop of sml_vm_run has ended: the return value
VMReturn ==
    /\ vpc = "running"
    /\ ~vm.running
    /\ vpc' = "done"
    /\ vresult' = vm_run_result(vm)
    /\ UNCHANGED <<source, nlines, comp, cpc, cresult, resolved,
                   interp, ipc, iresult, isteps, image, vm>>
    /\ UNCHANGED lexvars
    /\ UNCHANGED proc

NextVM == VMLoad \/ VMStep \/ VMReturn

SpecVM == InitVM /\ [][NextVM]_vars

(***************************************************************************)
(* The machine run on images that never halt.                              *)
(***************************************************************************)
VMLoopImages ==
    {MkImage(<<Word(SML_BRANCH, 0)>>, <<>>),
     MkImage(<<Word(SML_LOAD, 98), Word(SML_BRANCHZERO, 0)>>, <<>>)}

InitVMLoop ==
    /\ source = <<>>
    /\ nlines = 0
    /\ comp = compiler_init
    /\ cpc = "idle"
    /\ cresult = -1
    /\ resolved = FALSE
    /\ interp = interpreter_init
    /\ ipc = "idle"
    /\ iresult = -1
    /\ isteps = 0
    /\ image \in VMLoopImages
    /\ vm = sml_vm_init
    /\ vpc = "init"
    /\ vresult = -1
    /\ LexIdle
    /\ ProcIdle

SpecVMLoop == InitVMLoop /\ [][NextVM]_vars

(***************************************************************************)
(* Compile and run, as main.c does: the source is compiled, and after a    *)
(* successful compilation the memory of the compiler is loaded into the    *)
(* machine and run.  The IF programs read x and y and compare them on      *)
(* line 5, with a target before or after that line.  The FOR programs add  *)
(* the loop variable or 1 to s in a loop from a to b and print s.          *)
(***************************************************************************)
MaxOperand == 2

IfProgram(op, t) ==
    <<<<Num(1), Kw("INPUT"), Id(120)>>,
      <<Num(2), Kw("INPUT"), Id(121)>>,
      <<Num(3), Kw("GOTO"), Num(5)>>,
      <<Num(4), Kw("END")>>,
      <<Num(5), Kw("IF"), Id(120), Kw(op), Id(121), Kw("GOTO"), Num(t)>>,
      <<Num(6), Kw("PRINT"), Id(120)>>,
      <<Num(7), Kw("END")>>>>

IfCases ==
    {[source |-> IfProgram(op, t),
      stdin |-> <<[ok |-> TRUE, value |-> l], [ok |-> TRUE, value |-> r]>>] :
        op \in RelOps, t \in {4, 7},
        l \in (-MaxOperand)..MaxOperand, r \in (-MaxOperand)..MaxOperand}

\* bounds of the FOR programs: start 1..MaxStart, end 0..MaxEnd
MaxStart == 2

MaxEnd == 5

\* the body adds the loop variable (the sum) or 1 (the count) to s
ForBodies == {Id(105), Num(1)}

ForSteps ==
    {<<>>, <<Kw("STEP"), Num(2)>>, <<Kw("STEP"), Kw("MINUS"), Num(1)>>,
     <<Kw("STEP"), Kw("MINUS"), Num(2)>>}

ForProgram(a, b, step, body) ==
    <<<<Num(1), Kw("LET"), Id(115), Kw("ASSIGN"), Num(0)>>,
      <<Num(2), Kw("FOR"), Id(105), Kw("ASSIGN"), Num(a), Kw("TO"), Num(b)>>
          \o step,
      <<Num(3), Kw("LET"), Id(115), Kw("ASSIGN"), Id(115), Kw("PLUS"), body>>,
      <<Num(4), Kw("NEXT"), Id(105)>>,
      <<Num(5), Kw("PRINT"), Id(115)>>,
      <<Num(6), Kw("END")>>>>

ForCases ==
    {[source |-> ForProgram(a, b, step, body), stdin |-> <<>>] :
        a \in 1..MaxStart, b \in 0..MaxEnd, step \in ForSteps,
        body \in ForBodies}

RunCases == IfCases \cup ForCases

InitRun ==
    /\ \E p \in RunCases :
           /\ source = p.source
           /\ vm = [sml_vm_init EXCEPT !.stdin = p.stdin]
    /\ nlines = 0
    /\ comp = compiler_init
    /\ cpc = "pass1"
    /\ cresult = -1
    /\ resolved = FALSE
    /\ interp = interpreter_init
    /\ ipc = "idle"
    /\ iresult = -1
    /\ isteps = 0
    /\ image = sml_vm_init.memory
    /\ vpc = "idle"
    /\ vresult = -1
    /\ LexIdle
    /\ ProcIdle

\* main.c: sml_vm_init, then sml_vm_load of compiler_get_memory
RunCompiled ==
    /\ cpc = "done"
    /\ cresult = 1
    /\ vpc = "idle"
    /\ image' = comp.memory
    /\ vm' = sml_vm_load(vm, comp.memory)
    /\ vpc' = "running"
    /\ UNCHANGED <<source, nlines, comp, cpc, cresult, resolved,
                   interp, ipc, iresult, isteps, vresult>>
    /\ UNCHANGED lexvars
    /\ UNCHANGED proc

NextRun == CompileLine \/ Pass2 \/ RunCompiled \/ VMStep \/ VMReturn

SpecRun == InitRun /\ [][NextRun]_vars

(***************************************************************************)
(* The compiler or the interpreter on chosen programs: one FOR loop for     *)
(* every start, end and step of a small range, with the loop variable and  *)
(* the variable of the NEXT in either case; the nested loops of the        *)
(* multiplication scenario; loops closed by no NEXT; and statements whose  *)
(* expression divides by zero or reads a variable or an array element      *)
(* never assigned.  Lines are numbered 10, 20, ...; MaxScenSteps bounds    *)
(* the lines a run of the interpreter executes.                            *)
(***************************************************************************)
MaxFrom == 3

MaxScenSteps == 24

Numbered(bodies) == [k \in 1..Len(bodies) |-> <<Num(10 * k)>> \o bodies[k]]

ScenSteps ==
    {<<>>, <<Kw("STEP"), Num(1)>>, <<Kw("STEP"), Num(2)>>,
     <<Kw("STEP"), Num(0)>>, <<Kw("STEP"), Kw("MINUS"), Num(1)>>}

ScenFor(v, a, b, st) ==
    <<Kw("FOR"), Id(v), Kw("ASSIGN"), Num(a), Kw("TO"), Num(b)>> \o st

ScenLet(v, e) == <<Kw("LET"), Id(v), Kw("ASSIGN")>> \o e

\* for v = a to b [step st] / print v / next w / print v / end, v in "iI"
\* and w in "iIj"
ScenLoops(max) ==
    {Numbered(<<ScenFor(v, a, b, st), <<Kw("PRINT"), Id(v)>>,
                <<Kw("NEXT"), Id(w)>>, <<Kw("PRINT"), Id(v)>>, <<Kw("END")>>>>) :
         v \in {105, 73}, w \in {105, 73, 106},
         a \in 1..max, b \in 1..max, st \in ScenSteps}

\* scenario 3 of the specification: s = s + i * j for i = 1..3, j = 1..2
ScenNested ==
    Numbered(<<ScenLet(115, <<Num(0)>>),
               ScenFor(105, 1, 3, <<>>),
               ScenFor(106, 1, 2, <<>>),
               ScenLet(115, <<Id(115), Kw("PLUS"), Id(105), Kw("STAR"), Id(106)>>),
               <<Kw("NEXT"), Id(106)>>,
               <<Kw("NEXT"), Id(105)>>,
               <<Kw("PRINT"), Id(115)>>,
               <<Kw("END")>>>>)

\* a skipped loop around another loop, loops that no NEXT closes, a NEXT
\* that no FOR opened, and a NEXT inside a loop that names another variable
ScenOdd ==
    {Numbered(<<ScenFor(105, 2, 1, <<>>), ScenFor(106, 1, 2, <<>>),
                <<Kw("NEXT"), Id(106)>>, <<Kw("NEXT"), Id(105)>>,
                <<Kw("PRINT"), Id(105)>>, <<Kw("END")>>>>),
      Numbered(<<ScenFor(105, 2, 1, <<>>), <<Kw("PRINT"), Id(105)>>,
                <<Kw("END")>>>>),
      Numbered(<<ScenFor(105, 1, 2, <<>>)>>),
      Numbered(<<<<Kw("NEXT"), Id(105)>>, <<Kw("END")>>>>),
      Numbered(<<ScenLet(105, <<Num(5)>>), <<Kw("NEXT"), Id(105)>>,
                <<Kw("PRINT"), Id(105)>>, <<Kw("END")>>>>),
      Numbered(<<ScenFor(105, 1, 2, <<>>), ScenFor(106, 1, 2, <<>>),
                <<Kw("NEXT"), Id(105)>>, <<Kw("NEXT"), Id(106)>>,
                <<Kw("END")>>>>)}

\* the expressions: 1 / 0, 1 % 0, 4 / 2, 5 % 2, 1 / (2 - 2), y, y + 1,
\* 1 / y, 6 % y, a(1), a(1) + 1, x + 1, a(99)
ScenExprs ==
    {<<Num(1), Kw("SLASH"), Num(0)>>,
     <<Num(1), Kw("PERCENT"), Num(0)>>,
     <<Num(4), Kw("SLASH"), Num(2)>>,
     <<Num(5), Kw("PERCENT"), Num(2)>>,
     <<Num(1), Kw("SLASH"), Kw("LPAREN"), Num(2), Kw("MINUS"), Num(2),
       Kw("RPAREN")>>,
     <<Id(121)>>,
     <<Id(121), Kw("PLUS"), Num(1)>>,
     <<Num(1), Kw("SLASH"), Id(121)>>,
     <<Num(6), Kw("PERCENT"), Id(121)>>,
     <<Id(97), Kw("LPAREN"), Num(1), Kw("RPAREN")>>,
     <<Id(97), Kw("LPAREN"), Num(1), Kw("RPAREN"), Kw("PLUS"), Num(1)>>,
     <<Id(120), Kw("PLUS"), Num(1)>>,
     <<Id(97), Kw("LPAREN"), Num(99), Kw("RPAREN")>>}

\* the first line assigns x, y or a(1), or is a remark
ScenFirst ==
    {ScenLet(120, <<Num(7)>>), ScenLet(121, <<Num(0)>>), ScenLet(121, <<Num(3)>>),
     <<Kw("LET"), Id(97), Kw("LPAREN"), Num(1), Kw("RPAREN"), Kw("ASSIGN"),
       Num(5)>>,
     <<Kw("REM")>>}

\* first line / let x = e or print e / print 9 / end
ScenExprPrograms ==
    {Numbered(<<f, st, <<Kw("PRINT"), Num(9)>>, <<Kw("END")>>>>) :
         f \in ScenFirst,
         st \in {ScenLet(120, e) : e \in ScenExprs}
                \cup {<<Kw("PRINT")>> \o e : e \in ScenExprs}}

ScenPrograms(max) ==
    ScenLoops(max) \cup {ScenNested} \cup ScenOdd \cup ScenExprPrograms

InitScen ==
    /\ source \in ScenPrograms(MaxFrom)
    /\ nlines = 0
    /\ comp = compiler_init
    /\ cresult = -1
    /\ resolved = FALSE
    /\ interp = interpreter_init
    /\ iresult = -1
    /\ isteps = 0
    /\ VMIdle
    /\ \/ cpc = "pass1" /\ ipc = "idle"
       \/ cpc = "idle" /\ ipc = "init"
    /\ LexIdle
    /\ ProcIdle

ExecuteScenLine == ExecuteLineWithin(MaxScenSteps)

NextScen ==
    CompileLine \/ Pass2 \/ Load \/ Run \/ ExecuteScenLine \/ RunReturn

SpecScen == InitScen /\ [][NextScen]_vars

(***************************************************************************)
(* The lexer on a buffer: calls of lexer_next_token and lexer_peek_token   *)
(* up to the EOF token and MaxAfterEOF calls beyond it, then a reset to    *)
(* offset 0 and a second pass to EOF.  A buffer is at most MaxPieces       *)
(* pieces, chosen so that joining them makes every kind of token, the      *)
(* three error tokens, white space and line feeds.                         *)
(***************************************************************************)
MaxPieces == 2

MaxAfterEOF == 1

MaxPeeks == 2

\* 12, 1.50, ., if, IF, x_1, "a b", "a, line feed, space and tab, =, !, <,
\* + and #
Pieces ==
    {<<49, 50>>, <<49, 46, 53, 48>>, <<46>>, <<105, 102>>, <<73, 70>>,
     <<120, 95, 49>>, <<34, 97, 32, 98, 34>>, <<34, 97>>, <<10>>, <<32, 9>>,
     <<61>>, <<33>>, <<60>>, <<43>>, <<35>>}

\* the line of the relational operators: <= == != >= < > =
OperatorLine ==
    <<60, 61, 32, 61, 61, 32, 33, 61, 32, 62, 61, 32, 60, 32, 62, 32, 61>>

\* each of = ! < > at the end of the buffer, before =, before >, before a
\* space and =, and before ==; and the line of the relational operators
OperatorBuffers ==
    {<<a>> \o t : a \in {61, 33, 60, 62},
                  t \in {<<>>, <<61>>, <<62>>, <<32, 61>>, <<61, 61>>}}
        \cup {OperatorLine}

RECURSIVE Joined(_)
Joined(ps) == IF ps = <<>> THEN <<>> ELSE Head(ps) \o Joined(Tail(ps))

Buffers(max) ==
    UNION {{Joined(ps) : ps \in [1..n -> Pieces]} : n \in 0..max}

\* the number of EOF tokens in a sequence of tokens
EOFs(toks) == Cardinality({k \in 1..Len(toks) : toks[k].type = "EOF"})

InitLexer ==
    /\ source = <<>>
    /\ nlines = 0
    /\ comp = compiler_init
    /\ cpc = "idle"
    /\ cresult = -1
    /\ resolved = FALSE
    /\ interp = interpreter_init
    /\ ipc = "idle"
    /\ iresult = -1
    /\ isteps = 0
    /\ VMIdle
    /\ lexer \in {lexer_init(b) : b \in Buffers(MaxPieces) \cup OperatorBuffers}
    /\ lpc = "pass1"
    /\ ltoks = <<>>
    /\ ltoks2 = <<>>
    /\ peeked = <<>>
    /\ ProcIdle

\* a call of lexer_next_token, in the first or in the second pass
LexNext ==
    /\ \/ lpc = "pass1" /\ EOFs(ltoks) <= MaxAfterEOF
       \/ lpc = "pass2" /\ EOFs(ltoks2) = 0
    /\ \E r \in {lexer_next_token(lexer)} :
           /\ lexer' = r.c
           /\ IF lpc = "pass1"
              THEN ltoks' = Append(ltoks, r.v) /\ ltoks2' = ltoks2
              ELSE ltoks2' = Append(ltoks2, r.v) /\ ltoks' = ltoks
    /\ peeked' = <<>>
    /\ UNCHANGED lpc
    /\ UNCHANGED <<source, nlines, comp, cpc, cresult, resolved,
                   interp, ipc, iresult, isteps>>
    /\ UNCHANGED vmvars
    /\ UNCHANGED proc

\* a call of lexer_peek_token; peeked holds the tokens peeked since the
\* last call of lexer_next_token
LexPeek ==
    /\ lpc = "pass1"
    /\ Len(peeked) < MaxPeeks
    /\ \E r \in {lexer_peek_token(lexer)} :
           /\ lexer' = r.c
           /\ peeked' = Append(peeked, r.v)
    /\ UNCHANGED <<lpc, ltoks, ltoks2>>
    /\ UNCHANGED <<source, nlines, comp, cpc, cresult, resolved,
                   interp, ipc, iresult, isteps>>
    /\ UNCHANGED vmvars
    /\ UNCHANGED proc

\* after the EOF token: lexer_reset_line with the start of the buffer
LexReset ==
    /\ lpc = "pass1"
    /\ EOFs(ltoks) > 0
    /\ lexer' = lexer_reset_line_to(lexer, 0)
    /\ lpc' = "pass2"
    /\ peeked' = <<>>
    /\ UNCHANGED <<ltoks, ltoks2>>
    /\ UNCHANGED <<source, nlines, comp, cpc, cresult, resolved,
                   interp, ipc, iresult, isteps>>
    /\ UNCHANGED vmvars
    /\ UNCHANGED proc

NextLexer == LexNext \/ LexPeek \/ LexReset

SpecLexer == InitLexer /\ [][NextLexer]_vars


(***************************************************************************)
(* The compiler on programs that use arrays: a first use of a with a       *)
(* literal index, a line that allocates other cells (a second array, a     *)
(* string, constants and temporaries, the variable a), a later access of   *)
(* a, and END.  MaxIndex bounds the indices (99 stands for an array that   *)
(* does not fit).                                                          *)
(***************************************************************************)
MaxIndex == 11

Elem(v, k) == <<Id(v), Kw("LPAREN"), Num(k), Kw("RPAREN")>>

\* let a(k) = 1, let x = a(k), print a(k), let x = 1 + a(k), let x = -a(k)
ArrAccesses(k) ==
    {<<Kw("LET")>> \o Elem(97, k) \o <<Kw("ASSIGN"), Num(1)>>,
     <<Kw("LET"), Id(120), Kw("ASSIGN")>> \o Elem(97, k),
     <<Kw("PRINT")>> \o Elem(97, k),
     <<Kw("LET"), Id(120), Kw("ASSIGN"), Num(1), Kw("PLUS")>> \o Elem(97, k),
     <<Kw("LET"), Id(120), Kw("ASSIGN"), Kw("MINUS")>> \o Elem(97, k)}

\* let b(0) = 2, print "hi", let x = 3 * 4, let a = 5
ArrOthers ==
    {<<Kw("LET")>> \o Elem(98, 0) \o <<Kw("ASSIGN"), Num(2)>>,
     <<Kw("PRINT"), Str(<<104, 105>>)>>,
     <<Kw("LET"), Id(120), Kw("ASSIGN"), Num(3), Kw("STAR"), Num(4)>>,
     <<Kw("LET"), Id(97), Kw("ASSIGN"), Num(5)>>}

ArrPrograms(max) ==
    {Numbered(<<f, o, l, <<Kw("END")>>>>) :
        f \in UNION {ArrAccesses(k) : k \in {0, 9, 10, max, 99}},
        o \in ArrOthers,
        l \in UNION {ArrAccesses(j) : j \in {0, 9, 10, max, max + 1}}}

InitArr ==
    /\ source \in ArrPrograms(MaxIndex)
    /\ nlines = 0
    /\ comp = compiler_init
    /\ cpc = "pass1"
    /\ cresult = -1
    /\ resolved = FALSE
    /\ interp = interpreter_init
    /\ ipc = "idle"
    /\ iresult = -1
    /\ isteps = 0
    /\ VMIdle
    /\ LexIdle
    /\ ProcIdle

SpecArr == InitArr /\ [][Next]_vars

(***************************************************************************)
(* The compiler and the machine on programs that print string literals:    *)
(* print s1 / print s2 / end, the literals of length 0, 1, 2, MaxStr - 1   *)
(* and MaxStr (digits) and the literal "hi!".  The overrun of the text     *)
(* field of a string entry is undefined behaviour: it brings the process   *)
(* down or the compile goes on with the memory image written so far.       *)
(***************************************************************************)
MaxStr == 64

\* the digits 1234567890123... up to a length
StrOfLen(n) == [i \in 1..n |-> 48 + (i % 10)]

Literals(max) ==
    {StrOfLen(n) : n \in {0, 1, 2, max - 1, max}} \cup {<<104, 105, 33>>}

StrPrograms(max) ==
    {Numbered(<<<<Kw("PRINT"), Str(s1)>>, <<Kw("PRINT"), Str(s2)>>,
                <<Kw("END")>>>>) : s1 \in Literals(max), s2 \in Literals(max)}

InitStr ==
    /\ source \in StrPrograms(MaxStr)
    /\ nlines = 0
    /\ comp = compiler_init
    /\ cpc = "pass1"
    /\ cresult = -1
    /\ resolved = FALSE
    /\ interp = interpreter_init
    /\ ipc = "idle"
    /\ iresult = -1
    /\ isteps = 0
    /\ VMIdle
    /\ LexIdle
    /\ ProcIdle

\* one iteration of the line loop of compiler_compile, where a line with
\* undefined behaviour brings the process down or is followed by the next
CompileStringLine ==
    /\ cpc = "pass1"
    /\ nlines < Len(source)
    /\ comp' = compile_line(comp, source[nlines + 1])
    /\ nlines' = nlines + 1
    /\ IF comp'.has_error
       THEN cpc' = "done" /\ cresult' = 0
       ELSE IF comp'.ub
       THEN cpc' \in {"crashed", "pass1"} /\ cresult' = cresult
       ELSE cpc' = "pass1" /\ cresult' = cresult
    /\ UNCHANGED <<source, resolved, interp, ipc, iresult, isteps>>
    /\ UNCHANGED vmvars
    /\ UNCHANGED lexvars
    /\ UNCHANGED proc

NextStr == CompileStringLine \/ Pass2 \/ RunCompiled \/ VMStep \/ VMReturn

SpecStr == InitStr /\ [][NextStr]_vars

(***************************************************************************)
(* The compiler and the machine on input b / input e / let x = b ^ e /     *)
(* end, with b and e typed on stdin: the bases of PowBases and the         *)
(* exponents 0..MaxExp and 31.                                             *)
(***************************************************************************)
MaxExp == 4

PowBases == {-2, -1, 0, 1, 2, 3, 10}

PowProgram ==
    Numbered(<<<<Kw("INPUT"), Id(98)>>, <<Kw("INPUT"), Id(101)>>,
               <<Kw("LET"), Id(120), Kw("ASSIGN"), Id(98), Kw("CARET"), Id(101)>>,
               <<Kw("END")>>>>)

InitPow ==
    /\ source = PowProgram
    /\ \E b \in PowBases, e \in (0..MaxExp) \cup {31} :
           vm = [sml_vm_init EXCEPT !.stdin = <<[ok |-> TRUE, value |-> b],
                                                [ok |-> TRUE, value |-> e]>>]
    /\ nlines = 0
    /\ comp = compiler_init
    /\ cpc = "pass1"
    /\ cresult = -1
    /\ resolved = FALSE
    /\ interp = interpreter_init
    /\ ipc = "idle"
    /\ iresult = -1
    /\ isteps = 0
    /\ image = sml_vm_init.memory
    /\ vpc = "idle"
    /\ vresult = -1
    /\ LexIdle
    /\ ProcIdle

SpecPow == InitPow /\ [][NextRun]_vars

(***************************************************************************)
(* The two ways of running one program: simple -r compiles it and runs the *)
(* image on the machine, simple -i interprets it.  The same source is      *)
(* given to both, the interpreter after the machine has stopped.  The      *)
(* programs are the counted loops                                          *)
(*     let s = 0 / for i = a to b [step st] / let s = s + 1 / next i / end *)
(* for a and b in -1..MaxDiff and the steps 1 (also left out), 2, -1, -2,  *)
(* and the assignments                                                     *)
(*     let a = 2 / let b = 3 / let c = 2 / let x = e / end                 *)
(* for integer expressions e.                                              *)
(***************************************************************************)
MaxDiff == 3

\* the literal n, written with a unary minus when negative
DiffLit(n) == IF n < 0 THEN <<Kw("MINUS"), Num(-n)>> ELSE <<Num(n)>>

DiffSteps ==
    {<<>>, <<Kw("STEP"), Num(1)>>, <<Kw("STEP"), Num(2)>>,
     <<Kw("STEP"), Kw("MINUS"), Num(1)>>, <<Kw("STEP"), Kw("MINUS"), Num(2)>>}

DiffLoop(a, b, st) ==
    Numbered(<<ScenLet(115, <<Num(0)>>),
               <<Kw("FOR"), Id(105), Kw("ASSIGN")>> \o DiffLit(a)
                   \o <<Kw("TO")>> \o DiffLit(b) \o st,
               ScenLet(115, <<Id(115), Kw("PLUS"), Num(1)>>),
               <<Kw("NEXT"), Id(105)>>,
               <<Kw("END")>>>>)

DiffLoops(max) ==
    {DiffLoop(a, b, st) : a \in (-1)..max, b \in (-1)..max, st \in DiffSteps}

\* operands: the literals 0..3 and the variables a, b, c
DiffAtoms == {<<Num(n)>> : n \in 0..3} \cup {<<Id(v)>> : v \in {97, 98, 99}}

DiffBinary == {"PLUS", "MINUS", "STAR", "CARET"}

\* x, -x, (x), x op y, x op y op z, -(x op y), x op (y op z), (x op y) op z
\* over small operand sets
DiffExprs ==
    LET A == DiffAtoms
        B == {<<Num(2)>>, <<Id(98)>>}
        C == {<<Num(0)>>, <<Num(2)>>, <<Id(99)>>}
        P(e) == <<Kw("LPAREN")>> \o e \o <<Kw("RPAREN")>>
    IN  A \cup {<<Kw("MINUS")>> \o x : x \in A} \cup {P(x) : x \in B}
        \cup {x \o <<Kw(o)>> \o y : x \in A, o \in DiffBinary, y \in B}
        \cup {<<Kw("MINUS")>> \o x \o <<Kw(o)>> \o y :
                 x \in B, o \in DiffBinary, y \in B}
        \cup {x \o <<Kw(o)>> \o <<Kw("MINUS")>> \o y :
                 x \in B, o \in {"PLUS", "MINUS", "STAR"}, y \in B}
        \cup {x \o <<Kw(o)>> \o y \o <<Kw(q)>> \o z :
                 x \in B, o \in DiffBinary, y \in B, q \in DiffBinary,
                 z \in C}
        \cup {<<Kw("MINUS")>> \o P(x \o <<Kw(o)>> \o y) :
                 x \in B, o \in DiffBinary, y \in B}
        \cup {x \o <<Kw(o)>> \o P(y \o <<Kw(q)>> \o z) :
                 x \in B, o \in DiffBinary, y \in B, q \in DiffBinary,
                 z \in C}
        \cup {P(x \o <<Kw(o)>> \o y) \o <<Kw(q)>> \o z :
                 x \in B, o \in DiffBinary, y \in B, q \in DiffBinary,
                 z \in C}

DiffAssign(e) ==
    Numbered(<<ScenLet(97, <<Num(2)>>), ScenLet(98, <<Num(3)>>),
               ScenLet(99, <<Num(2)>>), ScenLet(120, e), <<Kw("END")>>>>)

DiffPrograms(max) == DiffLoops(max) \cup {DiffAssign(e) : e \in DiffExprs}

InitDiff ==
    /\ source \in DiffPrograms(MaxDiff)
    /\ nlines = 0
    /\ comp = compiler_init
    /\ cpc = "pass1"
    /\ cresult = -1
    /\ resolved = FALSE
    /\ interp = interpreter_init
    /\ ipc = "wait"
    /\ iresult = -1
    /\ isteps = 0
    /\ VMIdle
    /\ LexIdle
    /\ ProcIdle

\* the second run: simple -i on the same file, once simple -r has ended
Interpret ==
    /\ ipc = "wait"
    /\ vpc \in {"done", "crashed"}
    /\ ipc' = "init"
    /\ UNCHANGED <<source, nlines, comp, cpc, cresult, resolved,
                   interp, iresult, isteps>>
    /\ UNCHANGED vmvars
    /\ UNCHANGED lexvars
    /\ UNCHANGED proc

NextDiff ==
    \/ CompileLine \/ Pass2 \/ RunCompiled \/ VMStep \/ VMReturn
    \/ Interpret \/ Load \/ Run \/ ExecuteScenLine \/ RunReturn

SpecDiff == InitDiff /\ [][NextDiff]_vars

(***************************************************************************)
(* The interpreter on assignments to an array element: a first line that   *)
(* assigns a scalar or an element, then let a(k) = 5 or input a(k) with 9  *)
(* typed, for indexes k around both ends of 0..99 (up to MaxIdx), then     *)
(* print a / print a(0) / end.                                             *)
(***************************************************************************)
MaxIdx == 101

IdxFirst ==
    {ScenLet(97, <<Num(7)>>), ScenLet(98, <<Num(7)>>),
     <<Kw("LET"), Id(97), Kw("LPAREN"), Num(0), Kw("RPAREN"), Kw("ASSIGN"),
       Num(7)>>}

IdxTarget(k) ==
    {<<Kw("LET"), Id(97), Kw("LPAREN")>> \o DiffLit(k)
         \o <<Kw("RPAREN"), Kw("ASSIGN"), Num(5)>>,
     <<Kw("INPUT"), Id(97), Kw("LPAREN")>> \o DiffLit(k) \o <<Kw("RPAREN")>>}

IdxPrograms(max) ==
    {Numbered(<<f, t, <<Kw("PRINT"), Id(97)>>,
                <<Kw("PRINT"), Id(97), Kw("LPAREN"), Num(0), Kw("RPAREN")>>,
                <<Kw("END")>>>>) :
         f \in IdxFirst,
         t \in UNION {IdxTarget(k) : k \in {-100, -2, -1, 0, 1} \cup 98..max}}

InitIdx ==
    /\ source \in IdxPrograms(MaxIdx)
    /\ nlines = 0
    /\ comp = compiler_init
    /\ cpc = "idle"
    /\ cresult = -1
    /\ resolved = FALSE
    /\ interp = [interpreter_init EXCEPT !.stdin = <<[ok |-> TRUE, value |-> 9]>>]
    /\ ipc = "init"
    /\ iresult = -1
    /\ isteps = 0
    /\ VMIdle
    /\ LexIdle
    /\ ProcIdle

SpecIdx == InitIdx /\ [][NextInterp]_vars

(***************************************************************************)
(* main.c: the process.  The arguments select a mode (0 interpret,         *)
(* 1 compile, 2 compile and run, 3 execute an image) and may name a file;  *)
(* the file may be unreadable and the .sml file impossible to create.      *)
(* proc.stderr holds the diagnostics written to stderr, proc.sml_written   *)
(* tells whether compiler_output wrote the image and proc.sml holds the    *)
(* lines it wrote (each without its line feed), proc.exit_code is the      *)
(* value main returned.  A component that ran into undefined behaviour and *)
(* brought the process down leaves it "killed".                            *)
(***************************************************************************)
CannotOpen == "Cannot open file: %s"

\* let x = k / for i = 1 to 2 step s / next i / print x / end, for
\* literals k and s of four digits and of more
LargeLiterals == {9999, 10000, INT_MAX}

LargeSteps == {<<Kw("STEP"), Kw("MINUS"), Num(9999)>>,
               <<Kw("STEP"), Kw("MINUS"), Num(12345)>>}

LargePrograms ==
    {Numbered(<<ScenLet(120, <<Num(k)>>), ScenFor(105, 1, 2, st),
                <<Kw("NEXT"), Id(105)>>, <<Kw("PRINT"), Id(120)>>,
                <<Kw("END")>>>>) :
         k \in LargeLiterals, st \in LargeSteps}

\* programs that compile and run, that fail to compile, that fail when
\* interpreted, and that fail on the machine
MainPrograms == ScenOdd \cup ScenExprPrograms \cup LargePrograms

\* LOAD 98, one of ADD 98 and DIVIDE 99, HALT; cell 99 holds 0, 3 or INT_MAX
MainImages ==
    {MkImage(<<Word(SML_LOAD, 98), w, Word(SML_HALT, 0)>>, d) :
        w \in {Word(SML_ADD, 98), Word(SML_DIVIDE, 99)},
        d \in {<<3, 0>>, <<-7, 3>>, <<INT_MAX, INT_MAX>>}}

Diagnostic(prefix, msg) == [prefix |-> prefix, msg |-> msg]

\* the decimal digits of n >= 0
RECURSIVE Digits(_)
Digits(n) ==
    IF n < 10 THEN <<48 + n>> ELSE Append(Digits(n \div 10), 48 + (n % 10))

\* the characters of printf("%+05d", word): the sign, then the digits of
\* the magnitude, padded with zeros on the left to a width of five; a
\* longer number is never cut
FormatWord(word) ==
    LET d == Digits(IF word < 0 THEN -word ELSE word)
    IN  <<IF word < 0 THEN 45 ELSE 43>>
        \o [k \in 1..(4 - Len(d)) |-> 48] \o d

\* the lines compiler_output writes, cell 0 first
compiler_output(c) ==
    [k \in 1..MEMORY_SIZE |-> FormatWord(c.memory[k - 1])]

InitMain ==
    /\ nlines = 0
    /\ comp = compiler_init
    /\ cpc = "idle"
    /\ cresult = -1
    /\ resolved = FALSE
    /\ interp = interpreter_init
    /\ ipc = "idle"
    /\ iresult = -1
    /\ isteps = 0
    /\ vm = sml_vm_init
    /\ vpc = "idle"
    /\ vresult = -1
    /\ LexIdle
    /\ \E m \in 0..3, f \in BOOLEAN, r \in BOOLEAN, w \in BOOLEAN :
           /\ proc = [pc |-> "start", mode |-> m, has_file |-> f,
                      readable |-> r, writable |-> w, stderr |-> <<>>,
                      sml_written |-> FALSE, sml |-> <<>>,
                      exit_code |-> -1]
           /\ IF m = 3
              THEN source = <<>> /\ image \in MainImages
              ELSE source \in MainPrograms /\ image = sml_vm_init.memory

\* main up to the first call into a component: the argument check, then
\* fopen in interpreter_load_file, compiler_compile_file or sml_vm_load_file
MainStart ==
    /\ proc.pc = "start"
    /\ IF ~proc.has_file
       THEN /\ proc' = [proc EXCEPT !.pc = "exited", !.exit_code = 1,
                            !.stderr = Append(@, Diagnostic("Error",
                                Msg("No input file specified.", <<>>)))]
            /\ UNCHANGED <<comp, cpc, interp, ipc, vm, vpc>>
       ELSE IF ~proc.readable
       THEN CASE proc.mode = 0 ->
                   /\ interp' = i_set_error(interp, CannotOpen, <<"filename">>)
                   /\ proc' = [proc EXCEPT !.pc = "exited", !.exit_code = 0,
                                   !.stderr = Append(@, Diagnostic("Error",
                                       interp'.error_message))]
                   /\ UNCHANGED <<comp, cpc, ipc, vm, vpc>>
              [] proc.mode \in {1, 2} ->
                   /\ comp' = set_error(comp, CannotOpen, <<"filename">>)
                   /\ proc' = [proc EXCEPT !.pc = "exited", !.exit_code = 0,
                                   !.stderr = Append(@, Diagnostic("Compile Error",
                                       comp'.error_message))]
                   /\ UNCHANGED <<interp, cpc, ipc, vm, vpc>>
              [] proc.mode = 3 ->
                   /\ vm' = [vm EXCEPT !.error_message =
                                           Msg(CannotOpen, <<"filename">>)]
                   /\ proc' = [proc EXCEPT !.pc = "exited", !.exit_code = 1,
                                   !.stderr = Append(@, Diagnostic("Error",
                                       vm'.error_message))]
                   /\ UNCHANGED <<comp, interp, cpc, ipc, vpc>>
       ELSE /\ proc' = [proc EXCEPT !.pc = "run"]
            /\ cpc' = IF proc.mode \in {1, 2} THEN "pass1" ELSE cpc
            /\ ipc' = IF proc.mode = 0 THEN "init" ELSE ipc
            /\ vpc' = IF proc.mode = 3 THEN "init" ELSE vpc
            /\ UNCHANGED <<comp, interp, vm>>
    /\ UNCHANGED <<source, nlines, cresult, resolved, iresult, isteps,
                   image, vresult>>
    /\ UNCHANGED lexvars

\* run_compiled after a successful compile: only in mode 2
MainRunCompiled == proc.pc = "run" /\ proc.mode = 2 /\ RunCompiled

\* the end of run_interpreter and of main in mode 0
MainInterpreted ==
    /\ proc.pc = "run" /\ proc.mode = 0
    /\ ipc \in {"load_failed", "done"}
    /\ proc' = [proc EXCEPT
                    !.pc = "exited", !.exit_code = 0,
                    !.stderr = IF ipc = "load_failed"
                               THEN Append(@, Diagnostic("Error",
                                               interp.error_message))
                               ELSE IF iresult = 0
                               THEN Append(@, Diagnostic("Runtime Error",
                                               interp.error_message))
                               ELSE @]
    /\ UNCHANGED <<source, nlines, comp, cpc, cresult, resolved,
                   interp, ipc, iresult, isteps>>
    /\ UNCHANGED vmvars
    /\ UNCHANGED lexvars

\* the end of run_compiler and of main in mode 1: after a failed compile
\* the diagnostic and nothing else, otherwise compiler_output
MainCompiled ==
    /\ proc.pc = "run" /\ proc.mode = 1
    /\ cpc = "done"
    /\ IF cresult = 0
       THEN /\ proc' = [proc EXCEPT !.pc = "exited", !.exit_code = 0,
                            !.stderr = Append(@, Diagnostic("Compile Error",
                                           comp.error_message))]
            /\ comp' = comp
       ELSE IF proc.writable
       THEN /\ proc' = [proc EXCEPT !.pc = "exited", !.exit_code = 0,
                                    !.sml_written = TRUE,
                                    !.sml = compiler_output(comp)]
            /\ comp' = comp
       ELSE /\ proc' = [proc EXCEPT !.pc = "exited", !.exit_code = 0]
            /\ comp' = set_error(comp, "Cannot create file: %s", <<"filename">>)
    /\ UNCHANGED <<source, nlines, cpc, cresult, resolved,
                   interp, ipc, iresult, isteps>>
    /\ UNCHANGED vmvars
    /\ UNCHANGED lexvars

\* the end of run_compiled after a failed compile, and the end of a run of
\* the machine in modes 2 and 3
MainExecuted ==
    /\ proc.pc = "run" /\ proc.mode \in {2, 3}
    /\ \/ proc.mode = 2 /\ cpc = "done" /\ cresult = 0
       \/ vpc = "done"
    /\ proc' = [proc EXCEPT
                    !.pc = "exited", !.exit_code = 0,
                    !.stderr = IF vpc # "done"
                               THEN Append(@, Diagnostic("Compile Error",
                                               comp.error_message))
                               ELSE IF vresult = 0
                               THEN Append(@, Diagnostic("Runtime Error",
                                               vm.error_message))
                               ELSE @]
    /\ UNCHANGED <<source, nlines, comp, cpc, cresult, resolved,
                   interp, ipc, iresult, isteps>>
    /\ UNCHANGED vmvars
    /\ UNCHANGED lexvars

\* a component brought the process down: main does not return
MainKilled ==
    /\ proc.pc = "run"
    /\ cpc = "crashed" \/ vpc = "crashed"
    /\ proc' = [proc EXCEPT !.pc = "killed"]
    /\ UNCHANGED <<source, nlines, comp, cpc, cresult, resolved,
                   interp, ipc, iresult, isteps>>
    /\ UNCHANGED vmvars
    /\ UNCHANGED lexvars

NextMain ==
    \/ MainStart
    \/ CompileLine \/ Pass2
    \/ Load \/ Run \/ ExecuteScenLine \/ RunReturn
    \/ MainRunCompiled \/ VMLoad \/ VMStep \/ VMReturn
    \/ MainInterpreted \/ MainCompiled \/ MainExecuted \/ MainKilled

SpecMain == InitMain /\ [][NextMain]_vars

(***************************************************************************)
(* Vocabulary of the properties of the compiler.                           *)
(***************************************************************************)
Success == cpc = "done" /\ cresult = 1

Opcode(word) == CDiv(word, 100)

Operand(word) == CMod(word, 100)

IsBranch(word) == Opcode(word) \in {SML_BRANCH, SML_BRANCHNEG, SML_BRANCHZERO}

InstructionArea == 0..(comp.instruction_counter - 1)

LineSymbolLocations ==
    {comp.symbols[i].location :
        i \in {k \in 1..Len(comp.symbols) : comp.symbols[k].type = "LINE"}}

\* the instruction address of the first line of the source numbered n
\* (-1 when the lines compiled so far have no such line)
FirstLineAddr(n) ==
    LET S == {k \in 1..Len(comp.h_lines) : comp.h_lines[k].number = n}
    IN  IF S = {} THEN -1 ELSE comp.h_lines[MinOf(S)].addr

Branches == {comp.h_branches[k] : k \in 1..Len(comp.h_branches)}

PowerCells == {b.cell : b \in {x \in Branches : x.origin = "power"}}

\* the line numbers the source defines, and the ones its GOTOs and IFs name
DefinedLines ==
    {source[k][1].num_value :
        k \in {j \in 1..Len(source) : source[j][1].type = "NUMBER"}}

NamedTargets ==
    UNION {{source[k][j + 1].num_value :
               j \in {i \in 1..(Len(source[k]) - 1) :
                         source[k][i].type = "GOTO"
                         /\ source[k][i + 1].type = "NUMBER"}} :
           k \in {j \in 1..Len(source) : source[j][1].type = "NUMBER"}}

UndefinedTargets == NamedTargets \ DefinedLines

(***************************************************************************)
(* C1 (as stated): after a successful compile every branch instruction of  *)
(* the instruction area has the location of some LINE symbol as operand,   *)
(* whatever emitted it.  The branches of an exponentiation loop refute it. *)
(***************************************************************************)
C1_EveryBranchTargetsALine ==
    Success =>
        \A a \in InstructionArea :
            IsBranch(comp.memory[a]) =>
                Operand(comp.memory[a]) \in LineSymbolLocations

(***************************************************************************)
(* C1 (amended): after a successful compile every branch emitted for GOTO, *)
(* IF or NEXT has the location of some LINE symbol as operand; the three   *)
(* branches of an exponentiation loop have the loop's own start or exit    *)
(* address as operand, which is the location of no LINE symbol.            *)
(***************************************************************************)
C1_BranchTargets ==
    Success =>
        \A a \in InstructionArea :
            IsBranch(comp.memory[a]) =>
                IF a \in PowerCells
                THEN \E b \in Branches :
                        /\ b.cell = a /\ b.origin = "power"
                        /\ Operand(comp.memory[a]) = b.dest
                        /\ b.dest \notin LineSymbolLocations
                ELSE Operand(comp.memory[a]) \in LineSymbolLocations

\* a successful compile with a forward GOTO or IF branch away from cell 0's
\* line and with the branches of an exponentiation
C1_Witness ==
    /\ Success
    /\ \E b \in Branches : b.origin = "power"
    /\ \E b \in Branches : b.origin \in {"goto", "if"} /\ b.fwd
                           /\ Operand(comp.memory[b.cell]) > 0

(***************************************************************************)
(* C2: every GOTO or IF branch whose target line is defined later is first *)
(* emitted with operand 0 and has exactly one flag for its cell; after a   *)
(* successful compile the cell holds the opcode it was emitted with and    *)
(* the instruction address of the first line with the target number.       *)
(***************************************************************************)
C2_ForwardBranchesResolved ==
    Success =>
        \A b \in Branches :
            b.fwd =>
                /\ b.origin \in {"goto", "if"}
                /\ Operand(b.word) = 0
                /\ Cardinality({f \in 1..Len(comp.flags) :
                       comp.flags[f].instruction_location = b.cell}) = 1
                /\ \A f \in 1..Len(comp.flags) :
                       comp.flags[f].instruction_location = b.cell
                           => comp.flags[f].target_line_number = b.dest
                /\ Opcode(comp.memory[b.cell]) = Opcode(b.word)
                /\ FirstLineAddr(b.dest) >= 0
                /\ Operand(comp.memory[b.cell]) = FirstLineAddr(b.dest)

\* a successful compile of a forward IF with two branch cells (<=, >=, !=)
C2_Witness ==
    /\ Success
    /\ \E b1, b2 \in Branches :
          /\ b1.fwd /\ b2.fwd /\ b1.origin = "if" /\ b2.origin = "if"
          /\ b1.cell < b2.cell
          /\ Operand(comp.memory[b2.cell]) > b2.cell

(***************************************************************************)
(* C3 (as stated): after pass two of a successful compile the flag list is *)
(* empty (the flag count is 0).                                            *)
(***************************************************************************)
C3_FlagListEmpty == Success => Len(comp.flags) = 0

(***************************************************************************)
(* C3 (amended): after pass two of a successful compile no flag entry is   *)
(* left unresolved: the cell of every flag holds a branch whose operand is *)
(* the location of the LINE symbol of the flag's target; the entries stay  *)
(* in the list, whose count is the number of forward branch cells.         *)
(***************************************************************************)
C3_NoFlagUnresolved ==
    Success =>
        /\ \A f \in 1..Len(comp.flags) :
              LET fl == comp.flags[f]
                  sym == find_symbol(comp, "LINE", fl.target_line_number)
              IN  /\ sym # 0
                  /\ fl.instruction_location \in InstructionArea
                  /\ IsBranch(comp.memory[fl.instruction_location])
                  /\ Operand(comp.memory[fl.instruction_location])
                         = comp.symbols[sym].location
        /\ Len(comp.flags) = Cardinality({b \in Branches : b.fwd})

\* a successful compile that recorded two flags
C3_Witness == Success /\ Len(comp.flags) >= 2

(***************************************************************************)
(* C4 (as stated): when a GOTO or IF of the source names a line number N   *)
(* that no line defines, compiler_compile returns failure with the error   *)
(* text "Undefined line number: N" for that N.                             *)
(***************************************************************************)
C4_UndefinedLineReported ==
    cpc = "done" =>
        \A n \in UndefinedTargets :
            /\ cresult = 0
            /\ comp.error_message = Msg("Undefined line number: %d", <<n>>)

\* the target of the first flag whose line is not in the symbol table
FirstUnresolvedTarget ==
    LET U == {f \in 1..Len(comp.flags) :
                 find_symbol(comp, "LINE", comp.flags[f].target_line_number) = 0}
    IN  IF U = {} THEN -1 ELSE comp.flags[MinOf(U)].target_line_number

(***************************************************************************)
(* C4 (amended): when a GOTO or IF of the source names a line number that  *)
(* no line defines, compiler_compile returns failure, never success; and   *)
(* when pass one ended without an error the error text is "Undefined line  *)
(* number: N" for the first such N in the order the branches were emitted. *)
(***************************************************************************)
C4_UndefinedLineFails ==
    (cpc = "done" /\ UndefinedTargets # {}) =>
        /\ cresult = 0
        /\ comp.has_error
        /\ resolved =>
              /\ FirstUnresolvedTarget \in UndefinedTargets
              /\ comp.error_message =
                     Msg("Undefined line number: %d", <<FirstUnresolvedTarget>>)

\* pass two has failed on a program with two different undefined targets
C4_Witness ==
    /\ cpc = "done" /\ resolved
    /\ Cardinality(UndefinedTargets) >= 1
    /\ Len(comp.flags) >= 2
    /\ comp.flags[1].target_line_number # comp.flags[2].target_line_number
    /\ comp.flags[2].target_line_number \in UndefinedTargets

(***************************************************************************)
(* C5: at every point of the compilation the instruction counter is not    *)
(* greater than the data counter and no cell is written both as an         *)
(* instruction and as data.  store_string breaks it.                       *)
(***************************************************************************)
C5_CodeAndDataDisjoint ==
    /\ comp.instruction_counter <= comp.data_counter
    /\ comp.h_code \cap comp.h_data = {}

C7_OneEntryPerKey ==
    cpc = "done" =>
        \A i, j \in 1..Len(comp.symbols) :
            (comp.symbols[i].type = comp.symbols[j].type
             /\ comp.symbols[i].symbol = comp.symbols[j].symbol) => i = j

(***************************************************************************)
(* C8: interning.  While no error is set, all uses of the same variable    *)
(* letter, the same constant value or the same string text got the same    *)
(* address; the first use allocated the cell and no later use allocated    *)
(* anything; the cell of a constant holds its value; and the address is    *)
(* the one the symbol or string table records now.                         *)
(***************************************************************************)
C8_Interning ==
    ~comp.has_error =>
        \A i, j \in 1..Len(comp.h_uses) :
            LET u == comp.h_uses[i]
                w == comp.h_uses[j]
            IN  (i <= j /\ u.kind = w.kind /\ u.key = w.key) =>
                    /\ u.loc = w.loc
                    /\ u.loc \in 0..(MEMORY_SIZE - 1)
                    /\ (i < j => ~w.fresh)
                    /\ ((\A k \in 1..(i - 1) :
                            ~(comp.h_uses[k].kind = u.kind
                              /\ comp.h_uses[k].key = u.key)) => u.fresh)
                    /\ (u.kind = "CONSTANT" => comp.memory[u.loc] = u.key)
                    /\ (u.kind \in {"VARIABLE", "CONSTANT"} =>
                            /\ find_symbol(comp, u.kind, u.key) # 0
                            /\ comp.symbols[find_symbol(comp, u.kind, u.key)].location
                                   = u.loc)
                    /\ (u.kind = "STRING" =>
                            \E s \in 1..Len(comp.strings) :
                                /\ comp.strings[s].text = u.key
                                /\ comp.strings[s].location = u.loc)

\* a successful compile that used a variable, a constant and a string twice
C8_Witness ==
    /\ Success
    /\ \A kind \in {"VARIABLE", "CONSTANT", "STRING"} :
          \E i, j \in 1..Len(comp.h_uses) :
              /\ i < j
              /\ comp.h_uses[i].kind = kind /\ comp.h_uses[j].kind = kind
              /\ comp.h_uses[i].key = comp.h_uses[j].key

(***************************************************************************)
(* C9: compiler_compile returns success only when every FOR frame pushed   *)
(* has been popped: on success the loop-frame stack is empty.              *)
(***************************************************************************)
C9_SuccessMeansNoOpenFor == Success => Len(comp.for_stack) = 0

(***************************************************************************)
(* C10: whenever interpreter_run returns success (END was reached or the   *)
(* last line was passed) the runtime loop stack is empty: every frame      *)
(* pushed by a FOR has been popped by its NEXT, also in programs that      *)
(* leave a loop body by GOTO or run a FOR line again.                      *)
(***************************************************************************)
C10_SuccessMeansEmptyLoopStack ==
    (ipc = "done" /\ iresult = 1) => Len(interp.for_stack) = 0

(***************************************************************************)
(* C11: the depth of the loop stack stays within 0..MAX_FOR_DEPTH in the   *)
(* compiler and in the interpreter.  A FOR met with MAX_FOR_DEPTH frames   *)
(* on the stack fails with "For loop nested too deep" and pushes nothing;  *)
(* a NEXT met with an empty stack fails and the stack stays empty, so the  *)
(* depth is never decremented below 0.                                     *)
(***************************************************************************)
\* the statement keyword of a source line
StatementOf(line) ==
    IF line = <<>> THEN "NEWLINE"
    ELSE IF line[1].type # "NUMBER" THEN line[1].type
    ELSE IF Len(line) >= 2 THEN line[2].type
    ELSE "NEWLINE"

\* the line the next step of pass one compiles, the line the next step of
\* the interpreter executes
CompiledLine == source[nlines + 1]

ExecutedLine == source[interp.lines[interp.current_line_index + 1].start]

TooDeep == Msg("For loop nested too deep", <<>>)

C11_CompilerStep ==
    (cpc = "pass1" /\ nlines < Len(source) /\ comp' # comp) =>
        /\ Len(comp'.for_stack) <= MAX_FOR_DEPTH
        /\ (StatementOf(CompiledLine) = "FOR"
              /\ Len(comp.for_stack) = MAX_FOR_DEPTH) =>
               /\ comp'.has_error
               /\ comp'.error_message = TooDeep
               /\ comp'.for_stack = comp.for_stack
        /\ (StatementOf(CompiledLine) = "NEXT" /\ Len(comp.for_stack) = 0) =>
               /\ comp'.has_error
               /\ comp'.for_stack = <<>>

C11_InterpreterStep ==
    (ipc = "running" /\ isteps' = isteps + 1) =>
        /\ Len(interp'.for_stack) <= MAX_FOR_DEPTH
        /\ (StatementOf(ExecutedLine) = "FOR"
              /\ Len(interp.for_stack) = MAX_FOR_DEPTH) =>
               /\ interp'.has_error
               /\ interp'.error_message = TooDeep
               /\ interp'.for_stack = interp.for_stack
        /\ (StatementOf(ExecutedLine) = "NEXT"
              /\ Len(interp.for_stack) = 0) =>
               /\ interp'.has_error
               /\ interp'.for_stack = <<>>

C11_LoopDepthBounded == [][C11_CompilerStep /\ C11_InterpreterStep]_vars

\* the interpreter has refused an eleventh frame
C11_Witness ==
    /\ ipc = "done"
    /\ iresult = 0
    /\ interp.error_message = TooDeep
    /\ Len(interp.for_stack) = MAX_FOR_DEPTH

(***************************************************************************)
(* Vocabulary of the properties of compiled programs run on the machine.   *)
(***************************************************************************)
\* the instruction at address pc belongs to the code of line n, which is
\* followed by line n + 1
InLine(pc, n) == FirstLineAddr(n) <= pc /\ pc < FirstLineAddr(n + 1)

\* the value the machine holds for the variable named by the character ch
VarValue(ch) ==
    vm.memory[comp.symbols[find_symbol(comp, "VARIABLE", var_index(ch))].location]

Compare(op, l, r) ==
    CASE op = "EQ" -> l = r
      [] op = "NE" -> l # r
      [] op = "LT" -> l < r
      [] op = "GT" -> l > r
      [] op = "LE" -> l <= r
      [] op = "GE" -> l >= r

IfCase == Len(source) = 7 /\ source[5][2].type = "IF"

\* C12: comparison lowering is correct.  For every l and r of the range and
\* each of the six operators, the code emitted for "if l op r goto T" keeps
\* the machine running, and the step that leaves that code goes to the
\* first instruction of line T exactly when l op r holds and to the first
\* instruction of the following line otherwise.
C12_Step ==
    (vpc = "running" /\ vpc' = "running" /\ IfCase
     /\ InLine(vm.instruction_counter, 5))
    => /\ vm'.running
       /\ vm'.error_message = NoMsg
       /\ ~InLine(vm'.instruction_counter, 5)
          => vm'.instruction_counter =
                IF Compare(source[5][4].type, VarValue(120), VarValue(121))
                THEN FirstLineAddr(source[5][7].num_value)
                ELSE FirstLineAddr(6)

C12_ComparisonLowering == [][C12_Step]_vars

\* "if x != y goto 7" with x above y has left its code by the second
\* branch and stands at line 7
C12_Witness ==
    /\ vpc = "running"
    /\ IfCase
    /\ source[5][4].type = "NE"
    /\ source[5][7].num_value = 7
    /\ VarValue(120) > VarValue(121)
    /\ vm.instruction_register = SML_BRANCHNEG * 100 + FirstLineAddr(7)
    /\ vm.instruction_counter = FirstLineAddr(7)
    /\ FirstLineAddr(7) # FirstLineAddr(6)

ForCase == Len(source) = 6 /\ source[2][2].type = "FOR"

\* the cell of the variable named by the character ch
CellOf(ch) ==
    comp.symbols[find_symbol(comp, "VARIABLE", var_index(ch))].location

ForStart == source[2][5].num_value

ForEnd == source[2][7].num_value

ForStep ==
    IF Len(source[2]) = 7 THEN 1
    ELSE IF source[2][9].type = "MINUS" THEN -source[2][10].num_value
    ELSE source[2][9].num_value

\* what printf("%d") of n followed by a newline leaves on stdout
Printed(n) ==
    <<[kind |-> "num", num |-> n, text |-> <<>>],
      [kind |-> "str", num |-> 0, text |-> <<10>>]>>

\* sml_vm_run has returned from a FOR program
ForDone ==
    /\ vresult = 1
    /\ vm.error_message = NoMsg
    /\ vm.memory[vm.instruction_counter] = SML_HALT * 100
    /\ (ForStep = 1 /\ ForStart <= ForEnd /\ source[3][7].type = "NUMBER")
       => vm.stdout = Printed(ForEnd - ForStart + 1)
    /\ (ForStep = 1 /\ ForStart = 1 /\ ForEnd = 5
        /\ source[3][7].type = "IDENT")
       => vm.stdout = Printed(15)

\* C13: compiled FOR/NEXT iterates correctly.  The code of NEXT adds the
\* step to the loop variable; the step that leaves that code goes to the
\* first instruction of the line after the FOR exactly when the variable is
\* <= the end (positive step) or >= the end (negative step), and to the
\* line after the NEXT otherwise.  With step 1 and start <= end the body
\* runs end - start + 1 times, and the sum of 1 to 5 is printed as 15 and a
\* newline before the machine halts without an error.
C13_Step ==
    /\ (vpc = "running" /\ vpc' = "running" /\ ForCase
        /\ InLine(vm.instruction_counter, 4))
       => /\ vm'.running
          /\ vm'.error_message = NoMsg
          /\ vm'.opcode = SML_STORE
             => vm'.memory[CellOf(105)] = vm.memory[CellOf(105)] + ForStep
          /\ ~InLine(vm'.instruction_counter, 4)
             => vm'.instruction_counter =
                   IF \/ ForStep > 0 /\ VarValue(105) <= ForEnd
                      \/ ForStep < 0 /\ VarValue(105) >= ForEnd
                   THEN FirstLineAddr(3)
                   ELSE FirstLineAddr(5)
    /\ (ForCase /\ vpc' = "done") => ForDone'

C13_ForNextIterates == [][C13_Step]_vars

\* the sum of 1 to 5 has been printed and sml_vm_run has returned success
C13_Witness ==
    /\ ForCase
    /\ vpc = "done"
    /\ vresult = 1
    /\ ForStart = 1
    /\ ForEnd = 5
    /\ ForStep = 1
    /\ source[3][7].type = "IDENT"
    /\ vm.stdout = Printed(15)
    /\ VarValue(105) = 6

(***************************************************************************)
(* Vocabulary of the properties of the machine.                            *)
(***************************************************************************)
CapMsg ==
    Msg("Exceeded maximum cycles (%d), possible infinite loop", <<MAX_CYCLES>>)

\* an iteration of the loop of sml_vm_run is being taken
Stepping == vpc = "running" /\ vm.running /\ vpc' \in {"running", "crashed"}

\* C14: cycle-cap progress.  Every step of a run either stops the machine
\* (HALT, an error, the cap, or the end of the process) or adds one to the
\* cycle counter; the counter never exceeds 100000, and a machine whose
\* counter is 100000 has stopped with the maximum-cycles error.  A run is
\* therefore over after at most 100000 steps.
C14_Step ==
    /\ vm'.cycle_count <= MAX_CYCLES
    /\ vm'.cycle_count = MAX_CYCLES
       => ~vm'.running /\ vm'.error_message = CapMsg
    /\ Stepping
       => \/ vpc' = "crashed"
          \/ ~vm'.running
          \/ vm'.cycle_count = vm.cycle_count + 1

C14_CycleCapProgress == [][C14_Step]_vars

\* a loop has been stopped by the cap and sml_vm_run has returned failure
C14_Witness ==
    /\ vpc = "done"
    /\ vresult = 0
    /\ vm.cycle_count = MAX_CYCLES
    /\ vm.error_message = CapMsg
    /\ ~vm.running

\* sml_vm_run has returned after a HALT
Halted == vpc = "done" /\ vm.error_message = NoMsg

\* C15 as stated: the cycle counter counts every executed instruction, the
\* HALT included; LOAD 50, HALT with -7 in cell 50 ends with AC = -7,
\* running false and cycle counter 2.
C15_HaltCounted ==
    Halted
    => /\ vm.cycle_count = vm.h_executed
       /\ image = NegativeConstantImage
          => /\ vm.accumulator = -7
             /\ ~vm.running
             /\ vm.cycle_count = 2

\* C15, amended: the cycle counter counts every executed instruction except
\* the HALT; LOAD 50, HALT with -7 in cell 50 ends with AC = -7, running
\* false and cycle counter 1, and a run that executes k instructions before
\* a HALT ends with cycle counter k.
C15_HaltNotCounted ==
    Halted
    => /\ vm.cycle_count = vm.h_executed - 1
       /\ image = NegativeConstantImage
          => /\ vm.accumulator = -7
             /\ ~vm.running
             /\ vm.cycle_count = 1

\* the run of LOAD 50, HALT has returned
C15_Witness ==
    /\ Halted
    /\ vresult = 1
    /\ image = NegativeConstantImage
    /\ vm.opcode = SML_HALT
    /\ vm.accumulator = -7
    /\ vm.cycle_count = 1

\* the word at PC, which the step about to be taken fetches
Fetched == vm.memory[vm.instruction_counter]

FetchesNegative ==
    /\ Stepping
    /\ vm.instruction_counter \in 0..(MEMORY_SIZE - 1)
    /\ Fetched < 0

\* C16 as stated: every negative word fetched at PC stops the machine with
\* the "Unknown opcode" error.
C16_Original ==
    FetchesNegative
    => /\ ~vm'.running
       /\ vm'.error_message =
              Msg("Unknown opcode %d at PC=%d",
                  <<vm'.opcode, vm.instruction_counter>>)

C16_NegativeWordUnknownOpcode == [][C16_Original]_vars

\* C16, amended: every negative word fetched at PC stops the machine with an
\* error: "Unknown opcode" when the word is a multiple of 100 (the operand
\* decodes to 0), "Invalid operand" with the negative operand otherwise.
C16_Amended ==
    FetchesNegative
    => /\ ~vm'.running
       /\ vm'.instruction_register = Fetched
       /\ vm'.error_message =
              IF Fetched % 100 = 0
              THEN Msg("Unknown opcode %d at PC=%d",
                       <<vm'.opcode, vm.instruction_counter>>)
              ELSE Msg("Invalid operand: %d at PC=%d",
                       <<vm'.operand, vm.instruction_counter>>)
       /\ vm'.opcode * 100 + vm'.operand = Fetched
       /\ vm'.operand \in (-99)..0

C16_NegativeWordStopsWithError == [][C16_Amended]_vars

\* the constant -7 was reached as an instruction
C16_Witness ==
    /\ vpc = "done"
    /\ vresult = 0
    /\ vm.instruction_register = -7
    /\ vm.error_message =
           Msg("Invalid operand: %d at PC=%d", <<-7, vm.instruction_counter>>)

ZeroDivisorMsg ==
    IF vm.memory[vm.instruction_counter] \div 100 = SML_DIVIDE
    THEN Msg("Division by zero at PC=%d", <<vm.instruction_counter>>)
    ELSE Msg("Modulo by zero at PC=%d", <<vm.instruction_counter>>)

\* the step about to be taken divides by a cell that holds 0
DividesByZero ==
    /\ Stepping
    /\ vm.instruction_counter \in 0..(MEMORY_SIZE - 1)
    /\ Fetched >= 0
    /\ Fetched \div 100 \in {SML_DIVIDE, SML_MOD}
    /\ vm.memory[Fetched % 100] = 0

\* C17: DIVIDE and MOD with a zero in memory[operand] stop the machine with
\* "Division by zero at PC=P" or "Modulo by zero at PC=P"; sml_vm_run
\* returns failure, and AC, the memory, PC and the cycle counter keep the
\* values they had before the instruction.
C17_Step ==
    /\ DividesByZero
       => /\ ~vm'.running
          /\ vm'.error_message = ZeroDivisorMsg
          /\ vm'.accumulator = vm.accumulator
          /\ vm'.memory = vm.memory
          /\ vm'.instruction_counter = vm.instruction_counter
          /\ vm'.cycle_count = vm.cycle_count
    /\ (vpc' = "done" /\ vpc = "running"
        /\ vm.error_message.fmt \in {"Division by zero at PC=%d",
                                     "Modulo by zero at PC=%d"})
       => /\ vresult' = 0
          /\ vm' = vm

C17_ZeroDivisorStops == [][C17_Step]_vars

\* LOAD 98, a word, MOD 99 with 0 in cell 99: the run has failed at PC 2
C17_Witness ==
    /\ vpc = "done"
    /\ vresult = 0
    /\ vm.error_message = Msg("Modulo by zero at PC=%d", <<2>>)
    /\ vm.instruction_counter = 2
    /\ vm.cycle_count = 2
    /\ vm.accumulator = 3
    /\ vm.memory = image

\* C18: bounds checking.  Every memory access a step makes (the fetch, the
\* operand read or write, every character cell read by WRITES) is at an
\* address in 0..99, and a machine stopped with PC outside 0..99 has
\* stopped with "Invalid instruction counter: N".
C18_AccessesInBounds ==
    /\ vm.h_lo >= 0
    /\ vm.h_hi <= MEMORY_SIZE - 1
    /\ (vpc = "running" /\ ~vm.running
        /\ vm.instruction_counter \notin 0..(MEMORY_SIZE - 1))
       => vm.error_message =
              Msg("Invalid instruction counter: %d", <<vm.instruction_counter>>)

\* the last instruction executed is a HALT, at which PC still stands
StoppedByHalt ==
    /\ vm.opcode = SML_HALT
    /\ vm.instruction_counter \in 0..(MEMORY_SIZE - 1)
    /\ vm.instruction_register = Fetched
    /\ vm.h_executed > 0

\* C19: after sml_vm_load, sml_vm_run returns success exactly when the
\* machine stopped by executing HALT, with an empty error text, and failure
\* exactly when it stopped on an error, with a non-empty error text; on
\* return running is 0, and once an instruction has stopped the machine no
\* further instruction is executed.
C19_Step ==
    /\ (vpc = "running" /\ ~vm.running) => (vm' = vm /\ vpc' = "done")
    /\ vpc = "done" => vm' = vm
    /\ (vpc = "running" /\ vpc' = "done")
       => /\ ~vm'.running
          /\ vresult' \in {0, 1}
          /\ vresult' = 1 <=> (StoppedByHalt /\ vm.error_message = NoMsg)
          /\ vresult' = 0 <=> vm.error_message # NoMsg
          /\ vresult' = 0 <=> ~StoppedByHalt

C19_RunResult == [][C19_Step]_vars

\* a run stopped by "Invalid input" has returned failure
C19_Witness ==
    /\ vpc = "done"
    /\ vresult = 0
    /\ ~vm.running
    /\ vm.opcode = SML_READ
    /\ vm.error_message = Msg("Invalid input", <<>>)

TableOpcodes ==
    {SML_LOAD, SML_STORE, SML_ADD, SML_SUBTRACT, SML_MULTIPLY, SML_DIVIDE,
     SML_MOD, SML_BRANCH, SML_BRANCHNEG, SML_BRANCHZERO}

\* the step about to be taken executes a legal instruction of the table
LegalInstruction ==
    /\ Stepping
    /\ vm.instruction_counter \in 0..(MEMORY_SIZE - 1)
    /\ Fetched >= 0
    /\ Fetched \div 100 \in TableOpcodes
    /\ Fetched \div 100 \in {SML_DIVIDE, SML_MOD} => vm.memory[Fetched % 100] # 0

\* ac is the value the table gives the accumulator: the result of the
\* operation on the integers, which a C int holds only when it fits
TableAccumulator(op, old, cell, ac) ==
    CASE op = SML_LOAD -> ac = cell
      [] op = SML_ADD -> ~AddOverflows(old, cell) /\ ac = old + cell
      [] op = SML_SUBTRACT -> ~SubOverflows(old, cell) /\ ac = old - cell
      [] op = SML_MULTIPLY -> ~MulOverflows(old, cell) /\ ac = old * cell
      [] op = SML_DIVIDE -> ~DivOverflows(old, cell) /\ ac = IntDiv(old, cell)
      [] op = SML_MOD -> ~DivOverflows(old, cell) /\ ac = IntMod(old, cell)
      [] OTHER -> ac = old

BranchTaken(op, ac) ==
    \/ op = SML_BRANCH
    \/ op = SML_BRANCHNEG /\ ac < 0
    \/ op = SML_BRANCHZERO /\ ac = 0

\* C20: one step matches the opcode table.  With a legal instruction at PC,
\* LOAD sets AC to memory[operand], STORE sets memory[operand] to AC, ADD,
\* SUBTRACT, MULTIPLY, DIVIDE and MOD (divisor not 0) set AC to AC op
\* memory[operand], the branches set PC to the operand when taken, PC
\* becomes PC + 1 otherwise, the cycle counter grows by 1, and the other
\* cells, the running flag, the error text and the streams are unchanged
\* (the instruction register and the decoded opcode and operand hold the
\* instruction).
C20_Step ==
    LegalInstruction
    => /\ vpc' = "running"
       /\ vm'.instruction_register = Fetched
       /\ vm'.opcode = Fetched \div 100
       /\ vm'.operand = Fetched % 100
       /\ TableAccumulator(Fetched \div 100, vm.accumulator,
                           vm.memory[Fetched % 100], vm'.accumulator)
       /\ vm'.memory =
              IF Fetched \div 100 = SML_STORE
              THEN [vm.memory EXCEPT ![Fetched % 100] = vm.accumulator]
              ELSE vm.memory
       /\ vm'.instruction_counter =
              IF BranchTaken(Fetched \div 100, vm.accumulator)
              THEN Fetched % 100
              ELSE vm.instruction_counter + 1
       /\ vm'.cycle_count = vm.cycle_count + 1
       /\ vm'.running = vm.running
       /\ vm'.error_message = vm.error_message
       /\ vm'.stdin = vm.stdin
       /\ vm'.stdout = vm.stdout

C20_StepMatchesTable == [][C20_Step]_vars

(***************************************************************************)
(* Vocabulary of the properties of the loops of the interpreter.           *)
(***************************************************************************)
\* a step of the interpreter that executes a line
ExecutesLine == ipc = "running" /\ isteps' = isteps + 1

\* the start, end and step written on the FOR line about to be executed
\* (constants; a negative step is written with a minus sign)
LineStart == ExecutedLine[5].num_value

LineEnd == ExecutedLine[7].num_value

LineStep ==
    IF Len(ExecutedLine) = 7 THEN 1
    ELSE IF ExecutedLine[9].type = "MINUS" THEN -(ExecutedLine[10].num_value)
    ELSE ExecutedLine[9].num_value

\* the variable named on the FOR or NEXT line about to be executed
LineVar == ExecutedLine[3].text[1]

\* the index of the NEXT that closes a loop opened before line i, with depth
\* loops open, or -1
RECURSIVE MatchingNext(_, _)
MatchingNext(i, depth) ==
    IF i >= Len(interp.lines) THEN -1
    ELSE LET st == StatementOf(source[interp.lines[i + 1].start])
         IN  IF st = "FOR" THEN MatchingNext(i + 1, depth + 1)
             ELSE IF st = "NEXT"
             THEN IF depth = 1 THEN i ELSE MatchingNext(i + 1, depth - 1)
             ELSE MatchingNext(i + 1, depth)

\* the FOR about to be executed has a line after it and a NEXT that closes it
ClosedFor ==
    /\ StatementOf(ExecutedLine) = "FOR"
    /\ Len(interp.for_stack) < MAX_FOR_DEPTH
    /\ MatchingNext(interp.current_line_index + 1, 1) >= 0

\* the FOR step left the loop stack alone and went on after the matching NEXT
ForSkipped ==
    /\ interp'.for_stack = interp.for_stack
    /\ interp'.current_line_index =
           MatchingNext(interp.current_line_index + 1, 1) + 1

\* the FOR step pushed a frame whose body starts on the next line, and went
\* on with that line
ForEntered ==
    /\ Len(interp'.for_stack) = Len(interp.for_stack) + 1
    /\ SubSeq(interp'.for_stack, 1, Len(interp.for_stack)) = interp.for_stack
    /\ interp'.for_stack[Len(interp'.for_stack)].loop_start =
           interp.lines[interp.current_line_index + 2].start
    /\ interp'.for_stack[Len(interp'.for_stack)].end_value = LineEnd
    /\ interp'.for_stack[Len(interp'.for_stack)].step = LineStep
    /\ interp'.current_line_index = interp.current_line_index + 1

(***************************************************************************)
(* C21: executing "for v = start to end [step s]" in the interpreter       *)
(* assigns start to v, then pushes a loop frame whose body starts on the   *)
(* line after the FOR exactly when (s > 0 and start <= end) or (s < 0 and  *)
(* start >= end); in every other case, s = 0 included, no frame is pushed, *)
(* the body is skipped and execution resumes after the matching NEXT.      *)
(***************************************************************************)
C21_ForStep ==
    (ExecutesLine /\ ClosedFor) =>
        /\ ~interp'.has_error
        /\ interp'.variables[var_index(LineVar)] =
               [value |-> LineStart, initialized |-> TRUE]
        /\ IF \/ (LineStep > 0 /\ LineStart <= LineEnd)
              \/ (LineStep < 0 /\ LineStart >= LineEnd)
           THEN ForEntered
           ELSE ForSkipped

C21_ForEntry == [][C21_ForStep]_vars

\* the top frame of the loop stack, and the NEXT about to be executed names
\* its variable
TopFrame == interp.for_stack[Len(interp.for_stack)]

MatchingNextLine ==
    /\ StatementOf(ExecutedLine) = "NEXT"
    /\ Len(interp.for_stack) > 0
    /\ TopFrame.var = LineVar
    /\ TopFrame.step # 0
    /\ \E i \in 1..Len(interp.lines) : interp.lines[i].start = TopFrame.loop_start

\* the value the NEXT about to be executed gives the loop variable
Stepped == interp.variables[var_index(LineVar)].value + TopFrame.step

\* the run of the nested loops of scenario 3 has ended
NestedDone == source = ScenNested /\ ipc = "done"

(***************************************************************************)
(* C22: a NEXT whose variable is that of the top frame adds the step of    *)
(* the frame to the variable.  If the new value is still within the end    *)
(* value for the sign of the step, the next line executed is the first     *)
(* line after the FOR that pushed the frame and the depth of the loop      *)
(* stack is unchanged; otherwise the frame is popped and execution         *)
(* continues after the NEXT.  An inner loop runs completely for each       *)
(* iteration of the outer loop: the nested program of scenario 3           *)
(* (i = 1..3, j = 1..2, s = s + i * j) prints 18.                          *)
(***************************************************************************)
C22_NextStep ==
    (ExecutesLine /\ MatchingNextLine) =>
        /\ ~interp'.has_error
        /\ interp'.variables[var_index(LineVar)].value = Stepped
        /\ IF \/ (TopFrame.step > 0 /\ Stepped <= TopFrame.end_value)
              \/ (TopFrame.step < 0 /\ Stepped >= TopFrame.end_value)
           THEN /\ interp'.for_stack = interp.for_stack
                /\ interp'.lines[interp'.current_line_index + 1].start =
                       TopFrame.loop_start
           ELSE /\ interp'.for_stack =
                       SubSeq(interp.for_stack, 1, Len(interp.for_stack) - 1)
                /\ interp'.current_line_index = interp.current_line_index + 1

C22_NextIterates ==
    /\ [][C22_NextStep]_vars
    /\ [](NestedDone => /\ iresult = 1
                        /\ interp.stdout = Printed(18)
                        /\ interp.for_stack = <<>>)

C22_Witness == NestedDone /\ interp.stdout = Printed(18)

(***************************************************************************)
(* Vocabulary of the properties of the expressions of the interpreter.     *)
(***************************************************************************)
\* the position of the first "=" of a line, 0 when there is none
FirstAssign(line) ==
    IF \E k \in 1..Len(line) : line[k].type = "ASSIGN"
    THEN MinOf({k \in 1..Len(line) : line[k].type = "ASSIGN"})
    ELSE 0

\* the expression of the LET or PRINT line about to be executed
LineExpr ==
    IF StatementOf(ExecutedLine) = "LET"
    THEN SubSeq(ExecutedLine, FirstAssign(ExecutedLine) + 1, Len(ExecutedLine))
    ELSE IF StatementOf(ExecutedLine) = "PRINT"
    THEN SubSeq(ExecutedLine, 3, Len(ExecutedLine))
    ELSE <<>>

\* the k-th token of the expression e names a scalar never assigned, or an
\* element (with a constant index) of an array never assigned
UnassignedAt(e, k) ==
    /\ e[k].type = "IDENT"
    /\ IF k < Len(e) /\ e[k + 1].type = "LPAREN"
       THEN <<var_index(e[k].text[1]), e[k + 2].num_value>>
                \notin DOMAIN interp.arrays
       ELSE ~interp.variables[var_index(e[k].text[1])].initialized

ReadsUnassigned == \E k \in 1..Len(LineExpr) : UnassignedAt(LineExpr, k)

Uninitialized(ch) == Msg("Uninitialized variable: %c", <<ch>>)

(***************************************************************************)
(* C23: reading a scalar or an array element that was never assigned, in   *)
(* an expression, fails the run with "Uninitialized variable"; no          *)
(* uninitialized read yields a value: the statement prints nothing and     *)
(* assigns nothing.                                                        *)
(***************************************************************************)
C23_ReadStep ==
    (ExecutesLine /\ ReadsUnassigned) =>
        /\ interp'.has_error
        /\ \E ch \in 97..122 : interp'.error_message = Uninitialized(ch)
        /\ ipc' = "done"
        /\ iresult' = 0
        /\ interp'.stdout = interp.stdout
        /\ interp'.variables = interp.variables

C23_UninitializedReadFails == [][C23_ReadStep]_vars

\* the tokens e are an operand whose value is 0: the number 0, a variable
\* that holds 0, or (n - n)
ZeroOperand(e) ==
    \/ Len(e) = 1 /\ e[1].type = "NUMBER" /\ e[1].num_value = 0
    \/ /\ Len(e) = 1
       /\ e[1].type = "IDENT"
       /\ interp.variables[var_index(e[1].text[1])] =
              [value |-> 0, initialized |-> TRUE]
    \/ /\ Len(e) = 5
       /\ e[1].type = "LPAREN"
       /\ e[3].type = "MINUS"
       /\ e[2] = e[4]
       /\ e[2].type = "NUMBER"

\* the expression of the line about to be executed is "n / z" or "n % z"
\* with z an operand whose value is 0
DividesByZeroLine ==
    /\ Len(LineExpr) >= 3
    /\ LineExpr[1].type = "NUMBER"
    /\ LineExpr[2].type \in {"SLASH", "PERCENT"}
    /\ ZeroOperand(SubSeq(LineExpr, 3, Len(LineExpr)))

ZeroMsg ==
    IF LineExpr[2].type = "SLASH" THEN Msg("Division by zero", <<>>)
    ELSE Msg("Modulo by zero", <<>>)

(***************************************************************************)
(* C24: a "/" or "%" whose right operand is zero sets the error "Division  *)
(* by zero" or "Modulo by zero"; interpreter_run returns failure, no later *)
(* line is executed, and the target of the enclosing LET is neither        *)
(* assigned nor marked initialized (as in "10 let x = 1 / 0").             *)
(***************************************************************************)
C24_ZeroStep ==
    (ExecutesLine /\ DividesByZeroLine) =>
        /\ interp'.has_error
        /\ interp'.error_message = ZeroMsg
        /\ ipc' = "done"
        /\ iresult' = 0
        /\ interp'.variables = interp.variables
        /\ interp'.arrays = interp.arrays
        /\ interp'.stdout = interp.stdout

C24_Returned == (ipc = "done" /\ iresult = 0) => UNCHANGED vars

C24_ZeroDivisorFails == [][C24_ZeroStep /\ C24_Returned]_vars

C24_Witness ==
    /\ ipc = "done"
    /\ iresult = 0
    /\ interp.error_message = Msg("Division by zero", <<>>)
    /\ ExecutedLine = <<Num(20)>> \o ScenLet(120, <<Num(1), Kw("SLASH"), Num(0)>>)
    /\ ~interp.variables[var_index(120)].initialized

(***************************************************************************)
(* C25: first-error policy, in the compiler and in the interpreter: once   *)
(* an error is set, the text that can be retrieved is the message of the   *)
(* first error; no later step replaces it.                                 *)
(***************************************************************************)
C25_FirstErrorKept ==
    /\ comp.has_error => comp.error_message = comp.h_first_error
    /\ interp.has_error => interp.error_message = interp.h_first_error

\* a step of pass one that compiles a line
CompilesLine == cpc = "pass1" /\ nlines' = nlines + 1

\* the variable named on the NEXT line about to be compiled
CompiledVar == CompiledLine[3].text[1]

NextWithoutFor == Msg("next without for", <<>>)

\* the compiler left its loop stack and the memory image alone
NothingEmitted ==
    /\ comp'.for_stack = comp.for_stack
    /\ comp'.instruction_counter = comp.instruction_counter
    /\ comp'.memory = comp.memory

\* the interpreter left its loop stack and the variables alone
NothingStepped ==
    /\ interp'.for_stack = interp.for_stack
    /\ interp'.variables = interp.variables

(***************************************************************************)
(* C26: a NEXT met with an empty loop stack fails with "next without for"; *)
(* a NEXT that names another variable than the top frame fails with "next  *)
(* variable mismatch".  In both cases no frame is popped, the loop         *)
(* variable is not changed (interpreter) and no instruction is emitted     *)
(* (compiler).                                                             *)
(***************************************************************************)
C26_CompilerStep ==
    (CompilesLine /\ StatementOf(CompiledLine) = "NEXT") =>
        /\ Len(comp.for_stack) = 0 =>
               /\ comp'.has_error
               /\ comp'.error_message = NextWithoutFor
               /\ cpc' = "done" /\ cresult' = 0
               /\ NothingEmitted
        /\ (/\ Len(comp.for_stack) > 0
            /\ var_index(comp.for_stack[Len(comp.for_stack)].var)
                   # var_index(CompiledVar)) =>
               /\ comp'.has_error
               /\ comp'.error_message =
                      Msg("next variable mismatch: expected '%c', got '%c'",
                          <<comp.for_stack[Len(comp.for_stack)].var, CompiledVar>>)
               /\ cpc' = "done" /\ cresult' = 0
               /\ NothingEmitted

C26_InterpreterStep ==
    (ExecutesLine /\ StatementOf(ExecutedLine) = "NEXT") =>
        /\ Len(interp.for_stack) = 0 =>
               /\ interp'.has_error
               /\ interp'.error_message = NextWithoutFor
               /\ ipc' = "done" /\ iresult' = 0
               /\ NothingStepped
        /\ (/\ Len(interp.for_stack) > 0
            /\ var_index(TopFrame.var) # var_index(LineVar)) =>
               /\ interp'.has_error
               /\ interp'.error_message = Msg("next variable mismatch", <<>>)
               /\ ipc' = "done" /\ iresult' = 0
               /\ NothingStepped

C26_NextErrors == [][C26_CompilerStep /\ C26_InterpreterStep]_vars

\* "next j" inside the loop of i, in the interpreter
C26_Witness ==
    /\ ipc = "done"
    /\ iresult = 0
    /\ interp.error_message = Msg("next variable mismatch", <<>>)
    /\ Len(interp.for_stack) = 1
    /\ ExecutedLine = <<Num(30), Kw("NEXT"), Id(106)>>

(***************************************************************************)
(* C27: identifiers are case-insensitive everywhere, the matching of NEXT  *)
(* included: a loop opened by "for I = ..." is closed by "next i" without  *)
(* error, in the compiler and in the interpreter.                          *)
(***************************************************************************)
C27_CompilerStep ==
    (/\ CompilesLine
     /\ StatementOf(CompiledLine) = "NEXT"
     /\ Len(comp.for_stack) > 0
     /\ var_index(comp.for_stack[Len(comp.for_stack)].var)
            = var_index(CompiledVar)) =>
        /\ ~comp'.has_error
        /\ Len(comp'.for_stack) = Len(comp.for_stack) - 1

C27_InterpreterStep ==
    (/\ ExecutesLine
     /\ StatementOf(ExecutedLine) = "NEXT"
     /\ Len(interp.for_stack) > 0
     /\ var_index(TopFrame.var) = var_index(LineVar)) =>
        /\ ~interp'.has_error
        /\ interp'.variables[var_index(LineVar)].value = Stepped

C27_NextIgnoresCase == [][C27_CompilerStep /\ C27_InterpreterStep]_vars

(***************************************************************************)
(* Vocabulary of the properties of the lexer.                              *)
(***************************************************************************)
\* a step that is a call of lexer_peek_token, of lexer_next_token
PeekCall == Len(peeked') = Len(peeked) + 1

NextCall == Len(ltoks') = Len(ltoks) + 1 \/ Len(ltoks2') = Len(ltoks2) + 1

\* the token the call of lexer_next_token of this step returned
Returned ==
    IF Len(ltoks') = Len(ltoks) + 1 THEN ltoks'[Len(ltoks')]
    ELSE ltoks2'[Len(ltoks2')]

\* equal in kind, text and numeric value
SameToken(a, b) ==
    a.type = b.type /\ a.text = b.text /\ a.num_value = b.num_value

(***************************************************************************)
(* C28: lexer_peek_token returns a token equal in kind, text and numeric   *)
(* value to the one the next call of lexer_next_token returns, and leaves  *)
(* start, current, line and column unchanged; consecutive peeks return     *)
(* the same token.                                                         *)
(***************************************************************************)
C28_PeekStep ==
    PeekCall =>
        /\ lexer'.start = lexer.start
        /\ lexer'.current = lexer.current
        /\ lexer'.line = lexer.line
        /\ lexer'.column = lexer.column
        /\ Len(peeked) > 0 => peeked'[Len(peeked')] = peeked[Len(peeked)]

C28_NextStep ==
    (NextCall /\ Len(peeked) > 0) =>
        SameToken(Returned, peeked[Len(peeked)])

C28_PeekEqualsNext == [][C28_PeekStep /\ C28_NextStep]_vars

\* two peeks at a line feed after a token was taken
C28_Witness ==
    /\ Len(ltoks) > 0
    /\ Len(peeked) = 2
    /\ peeked[2].type = "NEWLINE"

\* the second pass has returned its EOF token
SecondPassDone == lpc = "pass2" /\ EOFs(ltoks2) > 0

\* the tokens of the first pass up to its first EOF token
FirstPass ==
    SubSeq(ltoks, 1, MinOf({k \in 1..Len(ltoks) : ltoks[k].type = "EOF"}))

\* the number of line feeds the first pass consumed
LineFeeds == Cardinality({k \in 1..Len(ltoks) : ltoks[k].type = "NEWLINE"})

(***************************************************************************)
(* C29, as stated: tokenizing a buffer to EOF, resetting the lexer to byte *)
(* offset 0 and tokenizing again yields the same sequence of tokens: kind, *)
(* text, numeric value, line and column.                                   *)
(***************************************************************************)
C29_SameTokensAfterReset == SecondPassDone => ltoks2 = FirstPass

(***************************************************************************)
(* C29, amended: the second pass yields the same kinds, texts, numeric     *)
(* values and columns; the line of each of its tokens is the line of the   *)
(* first pass plus the number of line feeds in the buffer, since the reset *)
(* leaves the line counter untouched.                                      *)
(***************************************************************************)
C29_SameTokensLinesShifted ==
    SecondPassDone =>
        /\ Len(ltoks2) = Len(FirstPass)
        /\ \A k \in 1..Len(ltoks2) :
               /\ SameToken(ltoks2[k], FirstPass[k])
               /\ ltoks2[k].column = FirstPass[k].column
               /\ ltoks2[k].line = FirstPass[k].line + LineFeeds

\* a second pass over a line feed followed by a keyword
C29_Witness ==
    /\ SecondPassDone
    /\ Len(ltoks2) = 3
    /\ ltoks2[1].type = "NEWLINE"
    /\ ltoks2[2].type = "IF"
    /\ ltoks2[2].line = 3

\* the tokens returned so far that are not EOF tokens
NonEOFs(toks) == Len(toks) - EOFs(toks)

(***************************************************************************)
(* C30: every call of lexer_next_token made before the end of the buffer   *)
(* consumes at least one byte, also when it returns an ERROR token; EOF is *)
(* reached after finitely many calls (at most one call per byte of the     *)
(* buffer returns another token); every call after the first EOF returns   *)
(* EOF and leaves the position unchanged.                                  *)
(***************************************************************************)
C30_NextStep ==
    NextCall =>
        /\ ~is_at_end(lexer) => lexer'.current > lexer.current
        /\ is_at_end(lexer) =>
               /\ Returned.type = "EOF"
               /\ lexer'.current = lexer.current
        /\ (lpc = "pass1" /\ EOFs(ltoks) > 0) =>
               /\ Returned.type = "EOF"
               /\ lexer' = lexer

C30_Bounded ==
    /\ lexer.current <= Len(lexer.source)
    /\ NonEOFs(ltoks) <= Len(lexer.source)
    /\ NonEOFs(ltoks2) <= Len(lexer.source)

C30_LexerTerminates == [][C30_NextStep]_vars /\ []C30_Bounded

\* an ERROR token, then EOF, then a call after EOF
C30_Witness ==
    /\ Len(ltoks) >= 3
    /\ ltoks[1].type = "ERROR"
    /\ EOFs(ltoks) = 2

\* the first byte of the token the call of this step scanned, and the byte
\* after it (0 at the end of the buffer)
TokenByte == ByteAt(lexer', lexer'.start)

FollowByte == ByteAt(lexer', lexer'.start + 1)

\* the kinds of the tokens of the first pass up to its first EOF token
FirstPassKinds == [k \in 1..Len(FirstPass) |-> FirstPass[k].type]

(***************************************************************************)
(* C31: with one byte of lookahead ==, !=, <= and >= are the tokens EQ,    *)
(* NE, LE and GE (two bytes consumed); a =, < or > not followed by = is    *)
(* ASSIGN, LT or GT and a ! not followed by = is an ERROR token (one byte  *)
(* consumed); the kinds of the line <= == != >= < > = are LE, EQ, NE, GE,  *)
(* LT, GT, ASSIGN, EOF.                                                    *)
(***************************************************************************)
C31_OperatorStep ==
    (NextCall /\ TokenByte \in {61, 33, 60, 62}) =>
        /\ FollowByte = 61 =>
               /\ Returned.type =
                      CASE TokenByte = 61 -> "EQ" [] TokenByte = 33 -> "NE"
                        [] TokenByte = 60 -> "LE" [] TokenByte = 62 -> "GE"
               /\ lexer'.current = lexer'.start + 2
        /\ FollowByte # 61 =>
               /\ Returned.type =
                      CASE TokenByte = 61 -> "ASSIGN" [] TokenByte = 33 -> "ERROR"
                        [] TokenByte = 60 -> "LT" [] TokenByte = 62 -> "GT"
               /\ TokenByte = 33 => Returned.text = ExpectedEquals
               /\ lexer'.current = lexer'.start + 1

C31_OperatorLineKinds ==
    (lexer.source = OperatorLine /\ lpc = "pass1" /\ EOFs(ltoks) > 0) =>
        FirstPassKinds = <<"LE", "EQ", "NE", "GE", "LT", "GT", "ASSIGN", "EOF">>

C31_OperatorLookahead == [][C31_OperatorStep]_vars /\ []C31_OperatorLineKinds

\* the line of the relational operators tokenized to its EOF token
C31_Witness ==
    /\ lexer.source = OperatorLine
    /\ EOFs(ltoks) = 1
    /\ Len(ltoks) = 8
    /\ ltoks[4].type = "GE"

(***************************************************************************)
(* Vocabulary of the properties of the process.                            *)
(***************************************************************************)
\* main has returned
Exited == proc.pc = "exited"

\* a diagnostic was written to stderr
ErrorReported == proc.stderr # <<>>

\* the compile of modes 1 and 2 failed
CompileFailed ==
    \E k \in 1..Len(proc.stderr) : proc.stderr[k].prefix = "Compile Error"

(***************************************************************************)
(* C32: the exit code of the process is 1 whenever an error was reported   *)
(* (unreadable file, compile error, runtime error of the interpreter or of *)
(* the machine) and 0 only on success; after a compile error no .sml file  *)
(* is written.                                                             *)
(***************************************************************************)
C32_ExitCode ==
    Exited =>
        /\ ErrorReported => proc.exit_code = 1
        /\ ~ErrorReported => proc.exit_code = 0
        /\ CompileFailed => ~proc.sml_written

(***************************************************************************)
(* Vocabulary of the properties of compiled arrays.                        *)
(***************************************************************************)
\* the position of the array access of the line being compiled (0: none),
\* the array it names and its literal index
AccessAt ==
    LET S == {p \in 1..(Len(CompiledLine) - 3) :
                 /\ CompiledLine[p].type = "IDENT"
                 /\ CompiledLine[p + 1].type = "LPAREN"
                 /\ CompiledLine[p + 2].type = "NUMBER"}
    IN  IF S = {} THEN 0 ELSE MinOf(S)

AccessArray == var_index(CompiledLine[AccessAt].text[1])

AccessIndex == CompiledLine[AccessAt + 2].num_value

\* the access is the first thing the statement compiles
AccessFirst ==
    \/ AccessAt = 3
    \/ AccessAt = 5 /\ CompiledLine[4].type = "ASSIGN"

\* the instructions that the operator around the access emits by itself:
\* none when the access is the whole expression or the target, the three of
\* a unary minus (STORE, LOAD, SUBTRACT), the five of 1 + (LOAD, STORE and
\* STORE, LOAD, ADD)
OperatorWords ==
    IF AccessFirst THEN 0
    ELSE IF CompiledLine[AccessAt - 1].type = "MINUS" THEN 3
    ELSE 5

\* the cells of an array symbol: size cells from its location downward
RunOf(sym) == (sym.location - sym.size + 1)..sym.location

\* the cells of the other entries of the tables: variables, constants and
\* arrays of the symbol table, and the strings with their length words
CellsOf(c, k) ==
    IF c.symbols[k].type = "ARRAY" THEN RunOf(c.symbols[k])
    ELSE IF c.symbols[k].type \in {"VARIABLE", "CONSTANT"}
    THEN {c.symbols[k].location}
    ELSE {}

StringCells(c) ==
    UNION {(c.strings[k].location - Len(c.strings[k].text))..c.strings[k].location :
               k \in 1..Len(c.strings)}

\* the cells the line being compiled allocated, and the words it emitted
NewData == comp'.h_data \ comp.h_data

NewCode ==
    {comp'.memory[a] : a \in comp.instruction_counter..(comp'.instruction_counter - 1)}

OutOfBounds(j, n) == Msg("Array index %d out of bounds (0-%d)", <<j, n - 1>>)

(***************************************************************************)
(* C33: the first use of array v with literal index k fixes its size at    *)
(* n = max(k + 1, 10) and allocates n contiguous data cells from the base  *)
(* downward; every later access v(j) with 0 <= j < n addresses base - j, a *)
(* cell inside that run and distinct from the cell of every other          *)
(* variable, constant, temporary, string or array; an access with j >= n   *)
(* fails with "Array index j out of bounds (0-(n-1))" and emits no         *)
(* instruction.                                                            *)
(***************************************************************************)
C33_FirstUse ==
    (CompilesLine /\ AccessAt # 0 /\ find_symbol(comp, "ARRAY", AccessArray) = 0
        /\ ~comp'.has_error) =>
        LET sym == comp'.symbols[find_symbol(comp', "ARRAY", AccessArray)]
            n == IF AccessIndex + 1 > 10 THEN AccessIndex + 1 ELSE 10
        IN  /\ find_symbol(comp', "ARRAY", AccessArray) # 0
            /\ sym.size = n
            /\ sym.location <= comp.data_counter
            /\ RunOf(sym) \subseteq NewData
            /\ \E op \in {SML_LOAD, SML_STORE} :
                   op * 100 + (sym.location - AccessIndex) \in NewCode

C33_LaterAccess ==
    (CompilesLine /\ AccessAt # 0 /\ find_symbol(comp, "ARRAY", AccessArray) # 0) =>
        LET k == find_symbol(comp, "ARRAY", AccessArray)
            sym == comp.symbols[k]
        IN  /\ comp'.symbols[k] = sym
            /\ RunOf(sym) \cap NewData = {}
            /\ AccessIndex < sym.size =>
                   /\ ~comp'.has_error
                   /\ sym.location - AccessIndex \in RunOf(sym)
                   /\ \E op \in {SML_LOAD, SML_STORE} :
                          op * 100 + (sym.location - AccessIndex) \in NewCode
            /\ AccessIndex >= sym.size =>
                   /\ comp'.has_error
                   /\ comp'.error_message = OutOfBounds(AccessIndex, sym.size)
                   /\ comp'.instruction_counter - comp.instruction_counter =
                          OperatorWords
                   /\ AccessFirst => comp'.memory = comp.memory

C33_RunsDistinct ==
    \A k \in 1..Len(comp.symbols) :
        comp.symbols[k].type = "ARRAY" =>
            /\ comp.symbols[k].size >= 10
            /\ RunOf(comp.symbols[k]) \subseteq comp.h_data
            /\ \A a \in RunOf(comp.symbols[k]) : a > comp.data_counter
            /\ RunOf(comp.symbols[k]) \cap StringCells(comp) = {}
            /\ \A m \in 1..Len(comp.symbols) :
                   m # k => RunOf(comp.symbols[k]) \cap CellsOf(comp, m) = {}

C33_CompiledArrays ==
    [][C33_FirstUse /\ C33_LaterAccess]_vars /\ []C33_RunsDistinct

\* a(0) made an array of ten cells, b(0) another, and a(10) was refused
C33_Witness ==
    /\ cpc = "done"
    /\ comp.error_message = OutOfBounds(10, 10)
    /\ Cardinality({k \in 1..Len(comp.symbols) : comp.symbols[k].type = "ARRAY"}) = 2

(***************************************************************************)
(* Vocabulary of the properties of string constants.                       *)
(***************************************************************************)
\* the characters of the literal of a line print "s", without the quotes
LiteralOf(line) == SubSeq(line[3].text, 2, Len(line[3].text) - 1)

\* the line being compiled stores a literal not yet in the string table,
\* and the literal, the WRITES and the NEWLINE fit between the counters
StoresLiteral ==
    /\ cpc = "pass1"
    /\ nlines' = nlines + 1
    /\ CompiledLine[2].type = "PRINT"
    /\ \A k \in 1..Len(comp.strings) :
           comp.strings[k].text # LiteralOf(CompiledLine)
    /\ comp.data_counter - Len(LiteralOf(CompiledLine)) > comp.instruction_counter + 2

\* what the run of the program writes: each literal, then a line feed
PrintedLiterals ==
    LET Item(s) == IF s = <<>> THEN <<>>
                   ELSE <<[kind |-> "str", num |-> 0, text |-> s]>>
        Line(k) == Item(LiteralOf(source[k]))
                   \o <<[kind |-> "str", num |-> 0, text |-> <<10>>]>>
    IN  Line(1) \o Line(2)

\* the literals of the program, each once, fit in the memory with the code
LiteralsFit ==
    LET l1 == Len(LiteralOf(source[1]))
        l2 == IF LiteralOf(source[2]) = LiteralOf(source[1]) THEN -1
              ELSE Len(LiteralOf(source[2]))
    IN  l1 + 1 + l2 + 1 + 5 <= MEMORY_SIZE

(***************************************************************************)
(* C34: a string literal s of any length that fits in memory is stored as  *)
(* a length word at the highest address followed by exactly length         *)
(* character cells at descending addresses (the length word equals the     *)
(* number of character cells written), and the WRITES emitted for          *)
(* print "s" makes the machine output exactly the characters of s.         *)
(***************************************************************************)
C34_StoreStep ==
    StoresLiteral =>
        LET s == LiteralOf(CompiledLine)
            loc == comp.data_counter
        IN  /\ comp'.memory[loc] = Len(s)
            /\ \A i \in 1..Len(s) : comp'.memory[loc - i] = s[i]
            /\ comp.data_counter - comp'.data_counter = 1 + Len(s)
            /\ comp'.memory[comp.instruction_counter] = SML_WRITES * 100 + loc

C34_Output ==
    (vpc = "done" /\ LiteralsFit) => vm.stdout = PrintedLiterals

C34_StringRoundTrip == [][C34_StoreStep]_vars /\ []C34_Output

(***************************************************************************)
(* Vocabulary of the properties of compiled exponentiation.                *)
(***************************************************************************)
\* the run of the exponentiation program has ended, by a return of
\* sml_vm_run or by the process going down
PowEnded == source = PowProgram /\ vpc \in {"done", "crashed"}

\* the base and the exponent that were typed
PowBase == VarValue(98)

\* the loop counts down a copy of the exponent: the cell of e keeps it
PowExponent == VarValue(101)

\* b^e is a C int: no product on the way overflows
RECURSIVE PowFits(_, _, _)
PowFits(b, e, acc) ==
    IF e <= 0 THEN TRUE
    ELSE IF MulOverflows(acc, b) THEN FALSE
    ELSE PowFits(b, e - 1, acc * b)

\* the instructions of the code area that load a cell
Loads(cell) ==
    {a \in 0..(comp.instruction_counter - 1) :
         comp.memory[a] = SML_LOAD * 100 + cell}

\* the instructions a run executes when the loop body runs e times: the
\* two READs, six to set up base, exponent and result, ten per round, the
\* two of the last test, LOAD result, STORE x and HALT
PowInstructions(e) == 13 + 10 * e

(***************************************************************************)
(* C35: for every integer base b and every exponent e >= 0 the loop        *)
(* emitted for b ^ e terminates after exactly e multiplications and leaves *)
(* b raised to e in the accumulator (1 when e = 0); base and exponent are  *)
(* each evaluated once.                                                    *)
(***************************************************************************)
C35_PowerLoop ==
    PowEnded =>
        /\ vpc = "done"
        /\ vresult = 1
        /\ PowFits(PowBase, PowExponent, 1)
        /\ vm.accumulator = IPow(PowBase, PowExponent)
        /\ VarValue(120) = IPow(PowBase, PowExponent)
        /\ vm.h_executed = PowInstructions(PowExponent)
        /\ Cardinality(Loads(CellOf(98))) = 1
        /\ Cardinality(Loads(CellOf(101))) = 1

(***************************************************************************)
(* Vocabulary of the properties of the emitted words.                      *)
(***************************************************************************)
LegalOpcodes ==
    {SML_READ, SML_WRITE, SML_NEWLINE, SML_WRITES, SML_LOAD, SML_STORE,
     SML_ADD, SML_SUBTRACT, SML_DIVIDE, SML_MULTIPLY, SML_MOD, SML_BRANCH,
     SML_BRANCHNEG, SML_BRANCHZERO, SML_HALT}

\* word is opcode * 100 + operand for a legal opcode and an operand in 0..99
LegalWord(word) ==
    \E op \in LegalOpcodes : \E operand \in 0..(MEMORY_SIZE - 1) :
        word = op * 100 + operand

\* the machine loaded with the image of the compiler and about to fetch
\* the cell a
MachineAt(a) ==
    [sml_vm_load(sml_vm_init, comp.memory) EXCEPT !.instruction_counter = a]

DecodeErrors == {"Invalid operand: %d at PC=%d", "Unknown opcode %d at PC=%d"}

\* an allocation made now would fail
AllocationFails == alloc_data(comp).v = -1

(***************************************************************************)
(* C36: after a successful compile every cell of the instruction area      *)
(* holds opcode * 100 + operand with one of the fifteen legal opcodes and   *)
(* an operand in 0..99.  A failed data allocation, which returns -1, sets   *)
(* the error flag, the flag is never cleared and a compile that ends with   *)
(* the flag set is not successful, so no -1 is encoded in a successful      *)
(* image; the machine stepping at any emitted instruction reports neither   *)
(* "Invalid operand" nor "Unknown opcode".                                  *)
(***************************************************************************)
C36_WordsLegal ==
    Success =>
        /\ ~comp.has_error
        /\ \A a \in InstructionArea :
              /\ LegalWord(comp.memory[a])
              /\ sml_vm_step(MachineAt(a), 0).c.error_message.fmt
                     \notin DecodeErrors

C36_FailedAllocationIsAnError ==
    AllocationFails => alloc_data(comp).c.has_error

C36_ErrorSticks == [][comp.has_error => comp'.has_error]_vars

C36_EmittedWordsLegal ==
    /\ C36_ErrorSticks
    /\ [](C36_WordsLegal /\ C36_FailedAllocationIsAnError)

\* a successful compile whose code and data fill the memory to the last
\* cell, so that one more allocation would fail
C36_Witness ==
    /\ Success
    /\ comp.instruction_counter > 2
    /\ AllocationFails

(***************************************************************************)
(* Vocabulary of the properties of the written image.                      *)
(***************************************************************************)
\* compiler_output has written the file of a successful compile
ImageWritten == proc.pc = "exited" /\ proc.mode = 1 /\ proc.sml_written

\* a sign character followed by exactly four digits
SignAndFourDigits(line) ==
    /\ Len(line) = 5
    /\ line[1] \in {43, 45}
    /\ \A k \in 2..5 : line[k] \in 48..57

(***************************************************************************)
(* C37: every cell of a successfully compiled image, instruction or data,  *)
(* is an integer in -9999..9999, and compiler_output writes each of the    *)
(* 100 lines as a sign character followed by exactly four digits.          *)
(***************************************************************************)
C37_FourDigitWords ==
    ImageWritten =>
        /\ Success
        /\ \A a \in 0..(MEMORY_SIZE - 1) : comp.memory[a] \in -9999..9999
        /\ Len(proc.sml) = MEMORY_SIZE
        /\ \A k \in 1..MEMORY_SIZE : SignAndFourDigits(proc.sml[k])

(***************************************************************************)
(* Vocabulary of the comparison of the two runs.                           *)
(***************************************************************************)
\* both runs of the program have returned
DiffEnded == ipc = "done" /\ vpc = "done"

LoopCase == Len(source) = 5 /\ source[2][2].type = "FOR"

\* the value of variable ch at the end of the interpreted run
InterpValue(ch) == interp.variables[var_index(ch)].value

\* the literal at position p of a line, with its sign, and its tokens
SignedAt(line, p) ==
    IF line[p].type = "MINUS" THEN -line[p + 1].num_value
    ELSE line[p].num_value

WidthAt(line, p) == IF line[p].type = "MINUS" THEN 2 ELSE 1

LoopStart == SignedAt(source[2], 5)

LoopEndPos == 6 + WidthAt(source[2], 5)

LoopEnd == SignedAt(source[2], LoopEndPos)

LoopStepPos == LoopEndPos + WidthAt(source[2], LoopEndPos) + 1

LoopStep ==
    IF Len(source[2]) < LoopStepPos THEN 1
    ELSE SignedAt(source[2], LoopStepPos)

\* the range is empty when the FOR line is entered
EmptyOnEntry ==
    \/ LoopStep > 0 /\ LoopStart > LoopEnd
    \/ LoopStep < 0 /\ LoopStart < LoopEnd

(***************************************************************************)
(* C38: for every start, end and constant non-zero step the body of a FOR  *)
(* loop is executed the same number of times by the compiled program on    *)
(* the machine and by the interpreter, zero times when the range is empty  *)
(* on entry, and the loop variable has the same value after the loop.      *)
(***************************************************************************)
C38_LoopsAgree ==
    (LoopCase /\ DiffEnded) =>
        /\ vresult = 1
        /\ iresult = 1
        /\ VarValue(115) = InterpValue(115)
        /\ VarValue(105) = InterpValue(105)
        /\ EmptyOnEntry => VarValue(115) = 0 /\ InterpValue(115) = 0

\* the program assigns an expression to x
AssignCase == Len(source) = 5 /\ source[4][2].type = "LET"

(***************************************************************************)
(* C40: for every expression built from integer literals, initialised      *)
(* variables, parentheses, unary minus, + - * and ^ with non-negative      *)
(* exponents, chains a ^ b ^ c included, the value the compiled code       *)
(* leaves in the accumulator on the machine equals the value the           *)
(* interpreter computes for the expression.                                *)
(***************************************************************************)
C40_ExpressionsAgree ==
    (AssignCase /\ DiffEnded) =>
        /\ vresult = 1
        /\ iresult = 1
        /\ vm.accumulator = InterpValue(120)
        /\ VarValue(120) = InterpValue(120)

(***************************************************************************)
(* Vocabulary of the properties of assignments to array elements.          *)
(***************************************************************************)
\* the line about to be executed is let v(k) = ... or input v(k)
TargetsElement ==
    /\ StatementOf(ExecutedLine) \in {"LET", "INPUT"}
    /\ Len(ExecutedLine) >= 4
    /\ ExecutedLine[4].type = "LPAREN"

\* the index written on the line
TargetIndex == SignedAt(ExecutedLine, 5)

IndexErrors == {"Array index out of bounds: %d", "Array index out of bounds"}

(***************************************************************************)
(* C39: in the interpreter a LET or an INPUT whose target is an array      *)
(* element with an index outside 0..99, negative or at least 100, fails    *)
(* with an array-index-out-of-bounds error and changes neither an array    *)
(* cell nor a scalar variable.                                             *)
(***************************************************************************)
C39_Step ==
    (ExecutesLine /\ TargetsElement
        /\ TargetIndex \notin 0..(MAX_ARRAY_SIZE - 1)) =>
        /\ interp'.has_error
        /\ interp'.error_message.fmt \in IndexErrors
        /\ interp'.arrays = interp.arrays
        /\ interp'.variables = interp.variables

C39_OutOfBoundsTarget == [][C39_Step]_vars

====
